---- MODULE Spec2Model ----
(***************************************************************************)
(* Document classification of the Pipefy/CrewAI triage service.            *)
(*                                                                         *)
(*   ClassificationService  src/src/services/classification_service.py     *)
(*   FAQKnowledgeService    src/src/services/faq_knowledge_service.py      *)
(*                                                                         *)
(* Python values are modelled as follows.  A dict is a TLA+ function whose *)
(* domain is the set of its keys (a missing key is a key outside DOMAIN).  *)
(* Any other value is a record tagged by its Python type in field py:      *)
(*   [py |-> "none"]                      None                             *)
(*   [py |-> "str", v |-> <<"a","b">>]    a str, as a sequence of chars    *)
(*   [py |-> "int", v |-> 7]              an int                           *)
(*   [py |-> "isostr", t, aware]          a str holding the ISO-8601 text  *)
(*                                        of instant t (aware: with a UTC  *)
(*                                        offset); any other str is not    *)
(*                                        ISO-8601                         *)
(* A call either returns ([raised |-> FALSE, value |-> ...]) or raises     *)
(* ([raised |-> TRUE, exc |-> <exception class>]).                         *)
(***************************************************************************)
EXTENDS Integers, Sequences, FiniteSets, TLC

VARIABLES
    rules,          \* ClassificationService._rules
    call,           \* arguments of the classify_documents call made, if any
    result,         \* what that call returned or raised
    now,            \* datetime.now(), in minutes
    faq,            \* the fields of the FAQKnowledgeService instance
    faq_file,       \* FAQ.pdf: [exists, readable, mtime]
    checklist_file, \* faq_checklist.json: [exists, corrupt, content, mtime]
    checklist_read, \* when the cached checklist was read from the file, -1 if never
    first_load,     \* whether the FAQ source was available when the rules were loaded
    last_op,        \* the last call made on the FAQKnowledgeService and what it did
    validation,     \* the validate_documents call in progress
    conc            \* threads inside extract_rules on the shared instance

classifyVars == <<rules, call, result>>
faqVars == <<faq, faq_file, checklist_file, checklist_read, first_load, last_op>>
vars == <<rules, call, result, now, faq, faq_file, checklist_file, checklist_read,
          first_load, last_op, validation, conc>>

(***************************************************************************)
(* Bounds of the model.                                                    *)
(***************************************************************************)
MaxRules == 2        \* rules of a rule set of the classification service
MaxChecklist == 2    \* rules of a checklist
MaxDocs == 2         \* documents submitted to validate_documents
MaxTime == 40        \* the clock stops here
TickMinutes == 20    \* minutes the clock advances in one step
NumThreads == 2      \* threads that share the FAQKnowledgeService instance
MaxNameLen == 3      \* characters of a name given to _normalize_name

(***************************************************************************)
(* Python helpers.                                                         *)
(***************************************************************************)
EmptyDict == [k \in {} |-> FALSE]

PyNone == [py |-> "none"]
PyStr(s) == [py |-> "str", v |-> s]
PyInt(n) == [py |-> "int", v |-> n]
IsoStr(t, aware) == [py |-> "isostr", t |-> t, aware |-> aware]

IsDict(d) == "py" \notin DOMAIN d

\* dict.get(k, default)
Get(d, k, default) == IF k \in DOMAIN d THEN d[k] ELSE default

\* bool(x)
Truthy(x) ==
    CASE x.py = "none"   -> FALSE
      [] x.py = "str"    -> x.v # <<>>
      [] x.py = "int"    -> x.v # 0
      [] x.py = "isostr" -> TRUE

IsSpaceChar(c) == c \in {" ", "\t", "\n"}

RECURSIVE LStrip(_)
LStrip(s) == IF s # <<>> /\ IsSpaceChar(Head(s)) THEN LStrip(Tail(s)) ELSE s

RECURSIVE RStrip(_)
RStrip(s) ==
    IF s # <<>> /\ IsSpaceChar(s[Len(s)]) THEN RStrip(SubSeq(s, 1, Len(s) - 1)) ELSE s

\* str.strip()
Strip(s) == RStrip(LStrip(s))

\* a in b, for two str
IsSubstring(a, b) ==
    \E i \in 0..(Len(b) - Len(a)) : SubSeq(b, i + 1, i + Len(a)) = a

UpperLetters ==
    <<"A", "B", "C", "D", "E", "F", "G", "H", "I", "J", "K", "L", "M",
      "N", "O", "P", "Q", "R", "S", "T", "U", "V", "W", "X", "Y", "Z", "Ã", "Ç">>

LowerLetters ==
    <<"a", "b", "c", "d", "e", "f", "g", "h", "i", "j", "k", "l", "m",
      "n", "o", "p", "q", "r", "s", "t", "u", "v", "w", "x", "y", "z", "ã", "ç">>

LowerChar(c) ==
    IF \E i \in 1..Len(UpperLetters) : UpperLetters[i] = c
    THEN LowerLetters[CHOOSE i \in 1..Len(UpperLetters) : UpperLetters[i] = c]
    ELSE c

\* str.lower()
Lower(s) == [i \in 1..Len(s) |-> LowerChar(s[i])]

\* str.strip(chars)
RECURSIVE LStripChars(_, _)
LStripChars(s, cs) ==
    IF s # <<>> /\ Head(s) \in cs THEN LStripChars(Tail(s), cs) ELSE s

RECURSIVE RStripChars(_, _)
RStripChars(s, cs) ==
    IF s # <<>> /\ s[Len(s)] \in cs THEN RStripChars(SubSeq(s, 1, Len(s) - 1), cs) ELSE s

StripChars(s, cs) == RStripChars(LStripChars(s, cs), cs)

Returned(v) == [raised |-> FALSE, value |-> v]
Raised(e) == [raised |-> TRUE, exc |-> e]

\* the elements of a sequence of sequences, in order
RECURSIVE Flatten(_)
Flatten(ss) == IF ss = <<>> THEN <<>> ELSE Head(ss) \o Flatten(Tail(ss))

RECURSIVE SumSeq(_)
SumSeq(s) == IF s = <<>> THEN 0 ELSE Head(s) + SumSeq(Tail(s))

(***************************************************************************)
(* ClassificationType                                                      *)
(***************************************************************************)
APROVADO == "Aprovado"
PENDENCIA_BLOQUEANTE == "Pendencia_Bloqueante"
PENDENCIA_NAO_BLOQUEANTE == "Pendencia_NaoBloqueante"

ClassificationType == {APROVADO, PENDENCIA_BLOQUEANTE, PENDENCIA_NAO_BLOQUEANTE}

(***************************************************************************)
(* self._rules["documents"] is an insertion-ordered dict doc_type -> rule: *)
(* a sequence of [doc_type, rule] entries with distinct doc_type.          *)
(***************************************************************************)
DocTypesOf(docRules) == [i \in 1..Len(docRules) |-> docRules[i].doc_type]

\* self._rules["documents"].get(doc_type, {})
DocRulesGet(docRules, doc_type) ==
    IF \E i \in 1..Len(docRules) : docRules[i].doc_type = doc_type
    THEN (CHOOSE e \in {docRules[i] : i \in 1..Len(docRules)} : e.doc_type = doc_type).rule
    ELSE EmptyDict

(***************************************************************************)
(* datetime.fromisoformat(x): TypeError for a non-str, ValueError for a    *)
(* str that is not ISO-8601, else the datetime (naive or aware).           *)
(***************************************************************************)
FromIsoFormat(x) ==
    CASE x.py = "isostr" -> Returned([t |-> x.t, aware |-> x.aware])
      [] x.py = "str"    -> Raised("ValueError")
      [] OTHER           -> Raised("TypeError")

\* expiry_date < datetime.now(): datetime.now() is naive, and comparing an
\* aware datetime with a naive one raises TypeError
DateBefore(d, clock) ==
    IF d.aware THEN Raised("TypeError") ELSE Returned(d.t < clock)

(***************************************************************************)
(* Issues are the formatted strings of _analyze_document, kept as records. *)
(***************************************************************************)
IssueMissing(doc_type) == [issue |-> "requerido_sin_contenido", doc |-> doc_type]
IssueExpired(doc_type) == [issue |-> "expirado", doc |-> doc_type]
IssueBadDate(doc_type, v) == [issue |-> "formato_fecha_invalido", doc |-> doc_type, value |-> v]
IssueField(doc_type, f) == [issue |-> "campo_faltante", doc |-> doc_type, field |-> f]

\* lines 171-172: the running (is_valid, issues) pair of one analysis
NoIssues == [is_valid |-> TRUE, issues |-> <<>>]

\* (mutation) the issue is appended and is_valid is left as it was
AddIssue_KeepsValid(st, issue) == [is_valid |-> st.is_valid, issues |-> Append(st.issues, issue)]

\* is_valid = False; issues.append(issue)
AddIssue(st, issue) == [is_valid |-> FALSE, issues |-> Append(st.issues, issue)]

\* (mutation) an absent document is never reported
CheckRequired_Skipped(st, doc_rules, doc_type, is_present) == st

\* lines 176-178: an absent document is invalid when the rule requires it
CheckRequired(st, doc_rules, doc_type, is_present) ==
    IF ~is_present /\ Get(doc_rules, "required", TRUE)
    THEN AddIssue(st, IssueMissing(doc_type))
    ELSE st

\* lines 182-190: the expiry check of a present document
CheckExpiry(st, doc_rules, doc_type, doc_data, clock) ==
    IF "expiry_date" \in DOMAIN doc_data /\ Get(doc_rules, "validate_expiry", FALSE)
    THEN LET parsed == FromIsoFormat(doc_data["expiry_date"])
         IN  IF parsed.raised
             THEN IF parsed.exc = "ValueError"
                  THEN Returned(AddIssue(st, IssueBadDate(doc_type, doc_data["expiry_date"])))
                  ELSE parsed
             ELSE LET before == DateBefore(parsed.value, clock)
                  IN  IF before.raised THEN before
                      ELSE Returned(IF before.value
                                    THEN AddIssue(st, IssueExpired(doc_type))
                                    ELSE st)
    ELSE Returned(st)

\* (mutation) line 194 is dropped: the issues are appended, is_valid is kept
CheckFields_KeepsValid(st, fields, doc_type, doc_data) ==
    LET Missing(f) == f \notin DOMAIN doc_data \/ ~Truthy(doc_data[f])
        missing == SelectSeq(fields, Missing)
    IN  [is_valid |-> st.is_valid,
         issues |-> st.issues \o [i \in 1..Len(missing) |->
                                     IssueField(doc_type, missing[i])]]

\* lines 192-195: one issue per required field that is missing or falsy
RECURSIVE CheckFields(_, _, _, _)
CheckFields(st, fields, doc_type, doc_data) ==
    IF fields = <<>> THEN st
    ELSE LET field == Head(fields)
             st1 == IF field \notin DOMAIN doc_data \/ ~Truthy(doc_data[field])
                    THEN AddIssue(st, IssueField(doc_type, field))
                    ELSE st
         IN  CheckFields(st1, Tail(fields), doc_type, doc_data)

\* line 175: bool(parsed_content and parsed_content.strip()); a truthy value
\* that is not a str has no strip()
IsPresent(parsed_content) ==
    IF ~Truthy(parsed_content) THEN Returned(FALSE)
    ELSE IF parsed_content.py # "str" THEN Raised("AttributeError")
    ELSE Returned(Strip(parsed_content.v) # <<>>)

\* line 196; in halves: 2 is 1.0 and 1 is 0.5
ConfidenceOf(is_valid, is_present) == IF is_valid /\ is_present THEN 2 ELSE 1

(***************************************************************************)
(* ClassificationService._analyze_document.  It re-raises whatever its     *)
(* body raises (lines 205-207).                                            *)
(***************************************************************************)
AnalyzeDocument(docRules, doc_type, doc_data, clock) ==
    IF ~IsDict(doc_data) THEN Raised("AttributeError")
    ELSE
    LET doc_rules == DocRulesGet(docRules, doc_type)
        present == IsPresent(Get(doc_data, "parsed_content", PyStr(<<>>)))
    IN  IF present.raised THEN present
        ELSE
        LET is_present == present.value
            st1 == CheckRequired(NoIssues, doc_rules, doc_type, is_present)
            st2 == IF is_present
                   THEN CheckExpiry(st1, doc_rules, doc_type, doc_data, clock)
                   ELSE Returned(st1)
        IN  IF st2.raised THEN st2
            ELSE
            LET st3 == IF is_present
                       THEN CheckFields(st2.value, Get(doc_rules, "required_fields", <<>>),
                                        doc_type, doc_data)
                       ELSE st2.value
            IN  Returned([document_type |-> doc_type,
                          is_valid |-> st3.is_valid,
                          is_present |-> is_present,
                          issues |-> st3.issues,
                          confidence_score |-> ConfidenceOf(st3.is_valid, is_present),
                          metadata |-> doc_data])

(***************************************************************************)
(* ClassificationService._determine_classification                        *)
(***************************************************************************)
\* (mutation) a rule without the flag counts as non-blocking
BlockingIfInvalid_DefaultFalse(docRules, analysis) ==
    Get(DocRulesGet(docRules, analysis.document_type), "blocking_if_invalid", FALSE)

\* self._rules["documents"].get(document_type, {}).get("blocking_if_invalid", True)
BlockingIfInvalid(docRules, analysis) ==
    Get(DocRulesGet(docRules, analysis.document_type), "blocking_if_invalid", TRUE)

\* (mutation) the non-blocking test is made first
DetermineClassification_NonBlockingFirst(docRules, analyses) ==
    IF \E i \in 1..Len(analyses) :
           ~analyses[i].is_valid /\ ~BlockingIfInvalid(docRules, analyses[i])
    THEN PENDENCIA_NAO_BLOQUEANTE
    ELSE IF \E i \in 1..Len(analyses) :
                ~analyses[i].is_valid /\ BlockingIfInvalid(docRules, analyses[i])
    THEN PENDENCIA_BLOQUEANTE
    ELSE APROVADO

DetermineClassification(docRules, analyses) ==
    LET has_blocking_issues ==
            \E i \in 1..Len(analyses) :
                ~analyses[i].is_valid /\ BlockingIfInvalid(docRules, analyses[i])
        has_non_blocking_issues ==
            \E i \in 1..Len(analyses) :
                ~analyses[i].is_valid /\ ~BlockingIfInvalid(docRules, analyses[i])
    IN  IF has_blocking_issues THEN PENDENCIA_BLOQUEANTE
        ELSE IF has_non_blocking_issues THEN PENDENCIA_NAO_BLOQUEANTE
        ELSE APROVADO

(***************************************************************************)
(* ClassificationService._identify_issues: the pair of lists.              *)
(***************************************************************************)
\* (mutation) every issue is appended to blocking_issues
IdentifyIssues_AllBlocking(docRules, analyses) ==
    [blocking |-> Flatten([i \in 1..Len(analyses) |-> analyses[i].issues]),
     non_blocking |-> <<>>]

IdentifyIssues(docRules, analyses) ==
    [blocking |->
        Flatten([i \in 1..Len(analyses) |->
                    IF BlockingIfInvalid(docRules, analyses[i])
                    THEN analyses[i].issues ELSE <<>>]),
     non_blocking |->
        Flatten([i \in 1..Len(analyses) |->
                    IF BlockingIfInvalid(docRules, analyses[i])
                    THEN <<>> ELSE analyses[i].issues])]

(***************************************************************************)
(* ClassificationService._determine_auto_actions.  phase_mapping maps a    *)
(* status to a phase id, a non-empty string.                               *)
(***************************************************************************)
MoveCardAction(phase_id, classification) ==
    [type |-> "MOVE_CARD", phase_id |-> phase_id, reason |-> classification]

GenerateDocumentAction(doc_type) ==
    [type |-> "GENERATE_DOCUMENT", document_type |-> doc_type,
     reason |-> "Documento auto-generable requerido"]

NotifyAction ==
    [type |-> "NOTIFY_WHATSAPP", recipient |-> "gestor_comercial",
     message |-> "Pendencias bloqueantes identificadas"]

\* lines 281-290
DocumentActions(docRules, analyses) ==
    Flatten([i \in 1..Len(analyses) |->
        IF Get(DocRulesGet(docRules, analyses[i].document_type), "auto_generable", FALSE)
           /\ (~analyses[i].is_present \/ ~analyses[i].is_valid)
        THEN <<GenerateDocumentAction(analyses[i].document_type)>>
        ELSE <<>>])

\* (mutation) line 293 tests both lists: if blocking_issues or non_blocking_issues
DetermineAutoActions_NotifyAnyIssue(rls, classification, analyses, blocking_issues, non_blocking_issues) ==
    LET action_rules == rls["actions"]
        phase_id == Get(Get(action_rules, "phase_mapping", EmptyDict), classification, "")
    IN  (IF phase_id # "" THEN <<MoveCardAction(phase_id, classification)>> ELSE <<>>)
        \o DocumentActions(rls["documents"], analyses)
        \o (IF blocking_issues # <<>> \/ non_blocking_issues # <<>>
            THEN <<NotifyAction>> ELSE <<>>)

DetermineAutoActions(rls, classification, analyses, blocking_issues, non_blocking_issues) ==
    LET action_rules == rls["actions"]
        phase_id == Get(Get(action_rules, "phase_mapping", EmptyDict), classification, "")
    IN  (IF phase_id # "" THEN <<MoveCardAction(phase_id, classification)>> ELSE <<>>)
        \o DocumentActions(rls["documents"], analyses)
        \o (IF blocking_issues # <<>> THEN <<NotifyAction>> ELSE <<>>)

(***************************************************************************)
(* ClassificationService._calculate_confidence_score: the mean, kept as    *)
(* the fraction num/den (each analysis score is a number of halves).       *)
(***************************************************************************)
\* (mutation) the total is returned without dividing by the number of analyses
CalculateConfidenceScore_Total(analyses) ==
    [num |-> SumSeq([i \in 1..Len(analyses) |-> analyses[i].confidence_score]),
     den |-> 2]

CalculateConfidenceScore(analyses) ==
    IF analyses = <<>> THEN [num |-> 0, den |-> 1]
    ELSE [num |-> SumSeq([i \in 1..Len(analyses) |-> analyses[i].confidence_score]),
          den |-> 2 * Len(analyses)]

(***************************************************************************)
(* ClassificationService._generate_summary: the lines that are joined.     *)
(***************************************************************************)
SummaryDocLines(analysis) ==
    <<[line |-> "doc", ok |-> analysis.is_valid, doc |-> analysis.document_type]>>
    \o [i \in 1..Len(analysis.issues) |-> [line |-> "doc_issue", text |-> analysis.issues[i]]]

SummarySection(heading, entries) ==
    IF entries # <<>>
    THEN <<[line |-> "heading", text |-> heading]>>
         \o [i \in 1..Len(entries) |-> [line |-> "entry", of |-> heading, text |-> entries[i]]]
    ELSE <<>>

GenerateSummary(classification, analyses, blocking_issues, non_blocking_issues, auto_actions) ==
    <<[line |-> "title", text |-> "Resumen de Clasificación"],
      [line |-> "status", text |-> classification],
      [line |-> "heading", text |-> "Documentos Analizados"]>>
    \o Flatten([i \in 1..Len(analyses) |-> SummaryDocLines(analyses[i])])
    \o SummarySection("Pendencias Bloqueantes", blocking_issues)
    \o SummarySection("Pendencias No Bloqueantes", non_blocking_issues)
    \o SummarySection("Acciones Automáticas", auto_actions)

(***************************************************************************)
(* Lines 92-128 of classify_documents: the Cartão CNPJ enrichment.         *)
(***************************************************************************)
IsDigit(c) == c \in {"0", "1", "2", "3", "4", "5", "6", "7", "8", "9"}

\* str(x)
StrOf(x) ==
    CASE x.py = "str"  -> x.v
      [] x.py = "none" -> <<"N", "o", "n", "e">>

\* ''.join(filter(str.isdigit, str(cnpj_raw)))
CnpjClean(cnpj_raw) == SelectSeq(StrOf(cnpj_raw), IsDigit)

CNPJ_DIGITS == 14

cartao_cnpj_tag == "cartao_cnpj"

ReasonGenerated == "Falta Cartão CNPJ - generado automáticamente"

ReasonNotGenerated ==
    "Falta Cartão CNPJ - CNPJ no válido o ausente, no se pudo generar automáticamente"

\* (mutation) the else branch of line 122 logs nothing
EnrichCartaoCnpj_WellFormedOnly(analyses, card_data, case_id, env) ==
    LET absent == \E i \in 1..Len(analyses) :
                      /\ analyses[i].document_type = cartao_cnpj_tag
                      /\ ~analyses[i].is_present
    IN  IF ~absent THEN Returned([log |-> <<>>, posts |-> <<>>])
        ELSE IF ~IsDict(card_data) THEN Raised("AttributeError")
        ELSE
        LET cnpj_clean == CnpjClean(Get(card_data, "cnpj", PyStr(<<>>)))
        IN  IF cnpj_clean # <<>> /\ Len(cnpj_clean) = CNPJ_DIGITS
            THEN IF ~env.imports THEN Raised("ImportError")
                 ELSE Returned(
                   [log |-> <<[type |-> "GENERATE_DOCUMENT",
                               document_type |-> cartao_cnpj_tag,
                               reason |-> ReasonGenerated,
                               enrich_result |-> [success |-> env.http = "ok"]]>>,
                    posts |-> <<[cnpj |-> cnpj_clean, case_id |-> case_id]>>])
            ELSE Returned([log |-> <<>>, posts |-> <<>>])

\* env.imports: whether lines 102-104 (import httpx, from config import
\* settings, settings.DOCUMENT_INGESTION_URL) succeed; they are outside the
\* inner try.  env.http: whether the POST and raise_for_status succeed.
\* Returns the actions logged and the POST requests issued, or raises.
EnrichCartaoCnpj(analyses, card_data, case_id, env) ==
    LET absent == \E i \in 1..Len(analyses) :
                      /\ analyses[i].document_type = cartao_cnpj_tag
                      /\ ~analyses[i].is_present
    IN  IF ~absent THEN Returned([log |-> <<>>, posts |-> <<>>])
        ELSE IF ~IsDict(card_data) THEN Raised("AttributeError")
        ELSE
        LET cnpj_raw == Get(card_data, "cnpj", PyStr(<<>>))
            cnpj_clean == CnpjClean(cnpj_raw)
        IN  IF cnpj_clean # <<>> /\ Len(cnpj_clean) = CNPJ_DIGITS
            THEN IF ~env.imports THEN Raised("ImportError")
                 ELSE Returned(
                   [log |-> <<[type |-> "GENERATE_DOCUMENT",
                               document_type |-> cartao_cnpj_tag,
                               reason |-> ReasonGenerated,
                               enrich_result |-> [success |-> env.http = "ok"]]>>,
                    posts |-> <<[cnpj |-> cnpj_clean, case_id |-> case_id]>>])
            ELSE Returned(
                   [log |-> <<[type |-> "GENERATE_DOCUMENT",
                               document_type |-> cartao_cnpj_tag,
                               reason |-> ReasonNotGenerated]>>,
                    posts |-> <<>>])

(***************************************************************************)
(* ClassificationService.classify_documents.  The outcome carries, beside  *)
(* the value returned or the exception raised, the POST requests issued.   *)
(***************************************************************************)
Outcome(r, posts) ==
    IF r.raised THEN [raised |-> TRUE, exc |-> r.exc, posts |-> posts]
    ELSE [raised |-> FALSE, value |-> r.value, posts |-> posts]

\* lines 86-89: one analysis per required document, in the order of the rules
AnalyzeAll(docRules, documents_data, clock) ==
    [i \in 1..Len(docRules) |->
        AnalyzeDocument(docRules, docRules[i].doc_type,
                        Get(documents_data, docRules[i].doc_type, EmptyDict), clock)]

ClassifyDocuments(rls, documents_data, card_data, case_id, clock, env) ==
    IF "documents" \notin DOMAIN rls THEN Outcome(Raised("KeyError"), <<>>)
    ELSE IF ~IsDict(documents_data) THEN Outcome(Raised("AttributeError"), <<>>)
    ELSE
    LET docRules == rls["documents"]
        analysed == AnalyzeAll(docRules, documents_data, clock)
    IN  IF \E i \in 1..Len(analysed) : analysed[i].raised
        THEN Outcome(analysed[CHOOSE i \in 1..Len(analysed) :
                                 /\ analysed[i].raised
                                 /\ \A j \in 1..(i - 1) : ~analysed[j].raised], <<>>)
        ELSE
        LET document_analyses == [i \in 1..Len(analysed) |-> analysed[i].value]
            enrich == EnrichCartaoCnpj(document_analyses, card_data, case_id, env)
        IN  IF enrich.raised THEN Outcome(enrich, <<>>)
            ELSE
            LET classification_type == DetermineClassification(docRules, document_analyses)
                issues == IdentifyIssues(docRules, document_analyses)
                auto_actions ==
                    DetermineAutoActions(rls, classification_type, document_analyses,
                                         issues.blocking, issues.non_blocking)
                    \o enrich.value.log
            IN  Outcome(Returned(
                    [classification_type |-> classification_type,
                     document_analyses |-> document_analyses,
                     blocking_issues |-> issues.blocking,
                     non_blocking_issues |-> issues.non_blocking,
                     confidence_score |-> CalculateConfidenceScore(document_analyses),
                     auto_actions |-> auto_actions,
                     summary |-> GenerateSummary(classification_type, document_analyses,
                                                 issues.blocking, issues.non_blocking,
                                                 auto_actions)]),
                    enrich.value.posts)

(***************************************************************************)
(* _normalize_name (faq_knowledge_service.py, lines 15-20)                 *)
(***************************************************************************)
AsciiChars ==
    {LowerLetters[i] : i \in 1..26} \cup {UpperLetters[i] : i \in 1..26}
    \cup {"0", "1", "2", "3", "4", "5", "6", "7", "8", "9"}
    \cup {" ", "\t", "\n", "-", "_", ".", "/", "*", "!", "(", ")", ":", ","}

\* unicodedata.normalize('NFKD', c).encode('ASCII', 'ignore').decode('ASCII'):
\* a letter with a diacritic decomposes into the letter and a combining
\* mark, which is dropped with every other non-ASCII character
AsciiFold(c) ==
    CASE c = "ã" -> <<"a">>
      [] c = "Ã" -> <<"A">>
      [] c = "ç" -> <<"c">>
      [] c = "Ç" -> <<"C">>
      [] c \in AsciiChars -> <<c>>
      [] OTHER -> <<>>

IsAlnum(c) ==
    \/ \E i \in 1..Len(LowerLetters) : LowerLetters[i] = c
    \/ \E i \in 1..Len(UpperLetters) : UpperLetters[i] = c
    \/ c \in {"0", "1", "2", "3", "4", "5", "6", "7", "8", "9"}

\* .replace('-', ' ').replace('_', ' ').replace('.', ' ').replace('/', ' ')
SeparatorToSpace(c) == IF c \in {"-", "_", ".", "/"} THEN " " ELSE c

\* str.split(): the maximal runs of non-whitespace characters
RECURSIVE SplitWords(_, _)
SplitWords(s, word) ==
    IF s = <<>> THEN (IF word = <<>> THEN <<>> ELSE <<word>>)
    ELSE IF IsSpaceChar(Head(s))
         THEN (IF word = <<>> THEN <<>> ELSE <<word>>) \o SplitWords(Tail(s), <<>>)
         ELSE SplitWords(Tail(s), Append(word, Head(s)))

\* ' '.join(words)
RECURSIVE JoinWords(_)
JoinWords(words) ==
    IF words = <<>> THEN <<>>
    ELSE IF Len(words) = 1 THEN Head(words)
    ELSE Head(words) \o <<" ">> \o JoinWords(Tail(words))

\* (mutation) name.replace('  ', ' '): each pair of spaces becomes one space
RECURSIVE CollapseSpaces_Pairs(_)
CollapseSpaces_Pairs(s) ==
    IF Len(s) < 2 THEN s
    ELSE IF s[1] = " " /\ s[2] = " "
         THEN <<" ">> \o CollapseSpaces_Pairs(SubSeq(s, 3, Len(s)))
         ELSE <<s[1]>> \o CollapseSpaces_Pairs(Tail(s))

\* line 20: ' '.join(name.split())
CollapseSpaces(s) == JoinWords(SplitWords(s, <<>>))

NormalizeName(name) ==
    LET ascii == Flatten([i \in 1..Len(name) |-> AsciiFold(name[i])])
        lowered == [i \in 1..Len(ascii) |-> SeparatorToSpace(LowerChar(ascii[i]))]
        Kept(c) == IsAlnum(c) \/ IsSpaceChar(c)
    IN  CollapseSpaces(SelectSeq(lowered, Kept))

(***************************************************************************)
(* FAQKnowledgeService.  Its fields are the record svc; the FAQ.pdf and    *)
(* the checklist JSON are files of the environment.  Times are minutes.    *)
(***************************************************************************)
CACHE_MINUTES == 30

Time(t) == [py |-> "datetime", t |-> t]

\* FAQKnowledgeService.__init__: _checklist_path is looked up once
NewFaqService(checklistFile) ==
    [knowledge_source |-> PyNone,
     last_load_time |-> PyNone,
     rules_cache |-> EmptyDict,
     faq_path |-> PyNone,
     checklist |-> PyNone,
     checklist_path |-> IF checklistFile.exists THEN [py |-> "Path"] ELSE PyNone]

\* FAQKnowledgeService._should_reload
ShouldReload(svc, faqFile, clock) ==
    IF svc.knowledge_source = PyNone \/ svc.last_load_time = PyNone THEN TRUE
    ELSE IF clock - svc.last_load_time.t > CACHE_MINUTES THEN TRUE
    ELSE svc.faq_path # PyNone /\ faqFile.exists /\ faqFile.mtime > svc.last_load_time.t

\* FAQKnowledgeService.get_knowledge_source.  PDFKnowledgeSource(...) raises
\* when the file is gone or unreadable; the source loaded is identified by
\* the modification time of the file it was read from.
GetKnowledgeSource(svc, faqFile, clock) ==
    IF svc.faq_path = PyNone /\ ~faqFile.exists
    THEN [svc |-> svc, value |-> PyNone, reloaded |-> FALSE]
    ELSE
    LET located == [svc EXCEPT !.faq_path = [py |-> "Path"]]
    IN  IF ShouldReload(located, faqFile, clock)
        THEN IF faqFile.exists /\ faqFile.readable
             THEN LET source == [py |-> "PDFKnowledgeSource", version |-> faqFile.mtime]
                  IN  [svc |-> [located EXCEPT !.knowledge_source = source,
                                               !.last_load_time = Time(clock),
                                               !.rules_cache = EmptyDict],
                       value |-> source, reloaded |-> TRUE]
             ELSE [svc |-> located, value |-> PyNone, reloaded |-> FALSE]
        ELSE [svc |-> located, value |-> located.knowledge_source, reloaded |-> FALSE]

\* FAQKnowledgeService.extract_rules: the extraction itself is not
\* implemented and yields {} (line 157)
ExtractRules(svc, section, faqFile, clock) ==
    IF section \in DOMAIN svc.rules_cache
    THEN [svc |-> svc, value |-> svc.rules_cache[section],
          reloaded |-> FALSE, from_cache |-> TRUE, no_source |-> FALSE]
    ELSE LET got == GetKnowledgeSource(svc, faqFile, clock)
         IN  IF got.value = PyNone
             THEN [svc |-> got.svc, value |-> EmptyDict,
                   reloaded |-> FALSE, from_cache |-> FALSE, no_source |-> TRUE]
             ELSE [svc |-> [got.svc EXCEPT !.rules_cache =
                                (section :> EmptyDict) @@ got.svc.rules_cache],
                   value |-> EmptyDict,
                   reloaded |-> got.reloaded, from_cache |-> FALSE, no_source |-> FALSE]

\* FAQKnowledgeService.load_checklist: json.load raises on a corrupt file
LoadChecklist(svc, checklistFile) ==
    IF svc.checklist # PyNone
    THEN [svc |-> svc, value |-> svc.checklist, from_cache |-> TRUE]
    ELSE IF svc.checklist_path = PyNone \/ ~checklistFile.exists
    THEN [svc |-> svc, value |-> PyNone, from_cache |-> FALSE]
    ELSE IF checklistFile.corrupt
    THEN [svc |-> svc, value |-> PyNone, from_cache |-> FALSE]
    ELSE LET loaded == [py |-> "list", v |-> checklistFile.content]
         IN  [svc |-> [svc EXCEPT !.checklist = loaded],
              value |-> loaded, from_cache |-> FALSE]

(***************************************************************************)
(* FAQKnowledgeService.validate_documents.  A checklist rule (regla) is a  *)
(* dict with the three keys below; a document is a dict with optional name *)
(* and parsed_content.  The local state of the loop is the record st.      *)
(***************************************************************************)
ItemKey == "Item do Checklist"
ClassKey == "Classificação da Pendência (se houver)"
ActionKey == "Ação Automática do Sistema"

EXCERPT_CHARS == 500

Chars_Bloqueante == <<"B", "l", "o", "q", "u", "e", "a", "n", "t", "e">>
Chars_CartaoCnpj == <<"C", "a", "r", "t", "ã", "o", " ", "C", "N", "P", "J">>
Chars_cartao_cnpj == <<"c", "a", "r", "t", "ã", "o", " ", "c", "n", "p", "j">>
Chars_Ninguno == <<"N", "i", "n", "g", "u", "n", "o">>

\* line 215: regla["Item do Checklist"].strip("* ")
Nombre(regla) == StripChars(regla[ItemKey], {"*", " "})

\* lines 216-217: the names and the excerpts sent to the oracle; slicing a
\* parsed_content that is not a str raises TypeError, outside the try
PromptFor(regla, documentos) ==
    IF \E i \in 1..Len(documentos) :
           Get(documentos[i], "parsed_content", PyStr(<<>>)).py # "str"
    THEN Raised("TypeError")
    ELSE Returned(
        [nombre |-> Nombre(regla),
         doc_names |-> [i \in 1..Len(documentos) |-> Get(documentos[i], "name", PyStr(<<>>))],
         doc_contents |->
            [i \in 1..Len(documentos) |->
                LET content == Get(documentos[i], "parsed_content", PyStr(<<>>)).v
                IN  SubSeq(content, 1, IF Len(content) < EXCERPT_CHARS
                                       THEN Len(content) ELSE EXCERPT_CHARS)]])

\* lines 234-240: the index of the first document whose name occurs in the
\* answer, 0 for none; "in" raises TypeError unless both are str
RECURSIVE MatchDocument(_, _, _)
MatchDocument(documentos, i, respuesta) ==
    IF i > Len(documentos) THEN Returned(0)
    ELSE LET doc_name == Get(documentos[i], "name", PyStr(<<>>))
         IN  IF doc_name.py # "str" \/ respuesta.py # "str" THEN Raised("TypeError")
             ELSE IF \/ IsSubstring(doc_name.v, respuesta.v)
                     \/ IsSubstring(Lower(doc_name.v), Lower(respuesta.v))
             THEN Returned(i)
             ELSE MatchDocument(documentos, i + 1, respuesta)

InitialValidation ==
    [detalles |-> EmptyDict, logs |-> <<>>, status_geral |-> APROVADO,
     acciones_automaticas |-> <<>>, raised |-> FALSE]

\* (mutation) the handler logs and re-raises
RecordError_Reraises(st, regla, exc) == [st EXCEPT !.raised = TRUE]

\* lines 261-264: the except branch
RecordError(st, regla, exc) ==
    [st EXCEPT
        !.detalles = (Nombre(regla) :> [status |-> "Faltante", regla |-> regla, error |-> exc])
                     @@ st.detalles,
        !.logs = Append(st.logs, [log |-> "falta_error_ia", nombre |-> Nombre(regla)])]

\* lines 241-245
RecordPresent(st, regla, respuesta, doc) ==
    [st EXCEPT
        !.detalles = (Nombre(regla) :>
                        [status |-> "Presente", regla |-> regla, validacion |-> "IA",
                         razonamiento |-> respuesta,
                         doc_name |-> Get(doc, "name", PyNone)])
                     @@ st.detalles,
        !.logs = Append(st.logs, [log |-> "presente_ia", nombre |-> Nombre(regla)])]

\* (mutation) line 252 is a plain else: a non-blocking rule overwrites the status
StatusAfterMissing_Overwrites(status_geral, regla) ==
    IF IsSubstring(Chars_Bloqueante, regla[ClassKey]) THEN PENDENCIA_BLOQUEANTE
    ELSE PENDENCIA_NAO_BLOQUEANTE

\* lines 250-253
StatusAfterMissing(status_geral, regla) ==
    IF IsSubstring(Chars_Bloqueante, regla[ClassKey]) THEN PENDENCIA_BLOQUEANTE
    ELSE IF status_geral # PENDENCIA_BLOQUEANTE THEN PENDENCIA_NAO_BLOQUEANTE
    ELSE status_geral

\* lines 246-260
RecordMissing(st, regla, respuesta) ==
    [st EXCEPT
        !.detalles = (Nombre(regla) :>
                        [status |-> "Faltante", regla |-> regla, validacion |-> "IA",
                         razonamiento |-> respuesta])
                     @@ st.detalles,
        !.logs = Append(st.logs, [log |-> "falta", nombre |-> Nombre(regla)]),
        !.status_geral = StatusAfterMissing(st.status_geral, regla),
        !.acciones_automaticas =
            IF \/ IsSubstring(Chars_CartaoCnpj, Nombre(regla))
               \/ IsSubstring(Chars_cartao_cnpj, Lower(Nombre(regla)))
            THEN Append(st.acciones_automaticas,
                        [type |-> "GENERATE_DOCUMENT", document_type |-> Nombre(regla),
                         reason |-> "Falta Cartão CNPJ - se generará automáticamente",
                         accion |-> regla[ActionKey]])
            ELSE st.acciones_automaticas]

\* lines 231-264: the try block, given what llm(prompt) returned or raised
OracleAndRecord(st, regla, documentos, outcome) ==
    IF outcome.raised THEN RecordError(st, regla, outcome.exc)
    ELSE LET match == MatchDocument(documentos, 1, outcome.value)
         IN  IF match.raised THEN RecordError(st, regla, match.exc)
             ELSE IF match.value # 0
             THEN RecordPresent(st, regla, outcome.value, documentos[match.value])
             ELSE RecordMissing(st, regla, outcome.value)

\* lines 214-264: one iteration of the loop over the checklist
ValidateRule(st, regla, documentos, outcome) ==
    IF PromptFor(regla, documentos).raised
    THEN [st EXCEPT !.raised = TRUE]
    ELSE OracleAndRecord(st, regla, documentos, outcome)

\* lines 214-266: the loop, given the oracle's outcome for each rule
RECURSIVE ValidateLoop(_, _, _, _)
ValidateLoop(st, checklist, documentos, outcomes) ==
    IF checklist = <<>> \/ st.raised THEN st
    ELSE ValidateLoop(ValidateRule(st, Head(checklist), documentos, Head(outcomes)),
                      Tail(checklist), documentos, Tail(outcomes))

\* line 266
ValidationResult(st) ==
    Returned([status |-> st.status_geral, logs |-> st.logs, detalles |-> st.detalles,
              acciones_automaticas |-> st.acciones_automaticas])

\* line 206
ChecklistUnavailable ==
    Returned([status |-> "error", logs |-> <<"Checklist no disponible">>,
              detalles |-> EmptyDict])

(***************************************************************************)
(* ClassificationService._load_rules: the three sections, in order.        *)
(***************************************************************************)
LoadRules(svc, faqFile, clock) ==
    LET d == ExtractRules(svc, "documentos", faqFile, clock)
        i == ExtractRules(d.svc, "pendencias", faqFile, clock)
        a == ExtractRules(i.svc, "acciones", faqFile, clock)
    IN  [svc |-> a.svc,
         rules |-> [documents |-> d.value, issues |-> i.value, actions |-> a.value]]

(***************************************************************************)
(* Inputs.  A rule set with one rule is explored with every rule flag      *)
(* (also missing) and every kind of document value; rule sets with several *)
(* rules, up to MaxRules, with boolean flags and well-typed documents.     *)
(***************************************************************************)
DocTypeNames == <<"cartao_cnpj", "contrato_social", "rg", "comprovante_endereco">>

Reverse(s) == [i \in 1..Len(s) |-> s[Len(s) + 1 - i]]

\* a dict with key k, or without it when v is "absent"
Opt(k, v) == IF v = "absent" THEN EmptyDict ELSE (k :> (v = "True"))

OptKey(k, v) == IF v = PyStr(<<"absent">>) THEN EmptyDict ELSE (k :> v)

DeepRules ==
    {Opt("required", req) @@ Opt("blocking_if_invalid", blk)
        @@ [validate_expiry |-> ve, auto_generable |-> ag, required_fields |-> rf] :
        req \in {"absent", "True", "False"}, blk \in {"absent", "True", "False"},
        ve \in BOOLEAN, ag \in BOOLEAN, rf \in {<<>>, <<"numero">>}}

WideRules ==
    {[required |-> req, blocking_if_invalid |-> blk, validate_expiry |-> TRUE,
      auto_generable |-> TRUE] : req \in BOOLEAN, blk \in BOOLEAN}

ActionRuleSets ==
    {EmptyDict,
     [phase_mapping |-> (APROVADO :> "fase_aprovado")
                        @@ (PENDENCIA_BLOQUEANTE :> "fase_pendencias")]}

DocRuleSeqs ==
    {<<>>}
    \cup {<<[doc_type |-> DocTypeNames[t], rule |-> r]>> : t \in 1..2, r \in DeepRules}
    \cup UNION {
           {[i \in 1..n |-> [doc_type |-> ts[i], rule |-> rs[i]]] :
               ts \in {SubSeq(DocTypeNames, 1, n), Reverse(SubSeq(DocTypeNames, 1, n))},
               rs \in [1..n -> WideRules]} : n \in 2..MaxRules}

\* self._rules after __init__: the three sections
RuleSets ==
    {[documents |-> d, issues |-> EmptyDict, actions |-> a] :
            d \in DocRuleSeqs, a \in ActionRuleSets}

Absent == PyStr(<<"absent">>)

DeepDocs(clock) ==
    {PyNone}
    \cup {OptKey("parsed_content", pc) @@ OptKey("expiry_date", ex) @@ OptKey("numero", nu) :
            pc \in {Absent, PyNone, PyStr(<<>>), PyStr(<<" ">>), PyStr(<<"t">>), PyInt(7)},
            ex \in {Absent, IsoStr(clock - 1, FALSE), IsoStr(clock, FALSE),
                    IsoStr(clock + 1, FALSE), IsoStr(clock - 1, TRUE),
                    PyStr(<<"x">>), PyInt(7)},
            nu \in {Absent, PyStr(<<>>), PyStr(<<"1">>)}}

WideDocs(clock) ==
    {[parsed_content |-> PyStr(<<"t">>)],
     [parsed_content |-> PyStr(<<" ">>)],
     [parsed_content |-> PyStr(<<"t">>), expiry_date |-> IsoStr(clock - 1, FALSE)]}

\* the dicts doc_type -> doc_data over any subset of the given doc types
RECURSIVE DictsOver(_, _)
DictsOver(types, docs) ==
    IF types = <<>> THEN {EmptyDict}
    ELSE LET rest == DictsOver(Tail(types), docs)
         IN  rest \cup {(Head(types) :> d) @@ r : d \in docs, r \in rest}

DocumentsDataFor(docRules, clock) ==
    IF Len(docRules) <= 1
    THEN {PyNone} \cup DictsOver(DocTypesOf(docRules), DeepDocs(clock))
    ELSE DictsOver(DocTypesOf(docRules), WideDocs(clock))

ValidCnpj ==
    <<"1", "2", ".", "3", "4", "5", ".", "6", "7", "8", "/", "0", "0", "0", "1", "-", "9", "0">>

\* (card_data, env) pairs; env is read only with a well-formed CNPJ
CardAndEnv ==
    {<<PyNone, [imports |-> TRUE, http |-> "ok"]>>,
     <<EmptyDict, [imports |-> TRUE, http |-> "ok"]>>,
     <<[cnpj |-> PyNone], [imports |-> TRUE, http |-> "ok"]>>,
     <<[cnpj |-> PyStr(<<"1", "2", "3">>)], [imports |-> TRUE, http |-> "ok"]>>}
    \cup {<<[cnpj |-> PyStr(ValidCnpj)], e>> :
            e \in {[imports |-> TRUE, http |-> "ok"], [imports |-> TRUE, http |-> "error"],
                   [imports |-> FALSE, http |-> "ok"]}}

\* card_data and env are read only when the rule set has a cartao_cnpj rule
CardAndEnvFor(rls) ==
    IF \E i \in 1..Len(rls["documents"]) : rls["documents"][i].doc_type = cartao_cnpj_tag
    THEN CardAndEnv
    ELSE {<<EmptyDict, [imports |-> TRUE, http |-> "ok"]>>}

NoCall == [pending |-> TRUE]

Called == "raised" \in DOMAIN result

\* the ClassificationService has been constructed
Constructed == "pending" \notin DOMAIN rules

NoFaqFile == [exists |-> FALSE, readable |-> FALSE, mtime |-> 0]

NoChecklistFile == [exists |-> FALSE, corrupt |-> FALSE, content |-> <<>>, mtime |-> 0]

IdleValidation == [pc |-> "idle"]

(***************************************************************************)
(* Checklists, documents and oracle outcomes of validate_documents.        *)
(***************************************************************************)
ChecklistLabels ==
    <<<<"C", "a", "r", "t", "ã", "o", " ", "C", "N", "P", "J">>,
      <<"*", "*", "R", "G", "*", "*">>,
      <<"C", "o", "n", "t", "r", "a", "t", "o", " ", "S", "o", "c", "i", "a", "l">>,
      <<"C", "N", "H">>>>

PendencyClasses ==
    {Chars_Bloqueante, <<"N", "ã", "o", " ", "B", "l", "o", "q", "u", "e", "a", "n", "t", "e">>, <<>>}

Regla(label, class) ==
    (ItemKey :> label) @@ (ClassKey :> class) @@ (ActionKey :> <<"g", "e", "r", "a", "r">>)

Checklists ==
    UNION {
        {[i \in 1..n |-> Regla(ls[i], cs[i])] :
            ls \in {SubSeq(ChecklistLabels, 1, n), Reverse(SubSeq(ChecklistLabels, 1, n)),
                    [i \in 1..n |-> ChecklistLabels[1]]},
            cs \in [1..n -> PendencyClasses]} : n \in 0..MaxChecklist}

ChecklistFiles ==
    {NoChecklistFile, [exists |-> TRUE, corrupt |-> TRUE, content |-> <<>>, mtime |-> 0]}
    \cup {[exists |-> TRUE, corrupt |-> FALSE, content |-> c, mtime |-> 0] : c \in Checklists}

Name_cartao == <<"c", "a", "r", "t", "a", "o", "-", "c", "n", "p", "j", ".", "p", "d", "f">>
Name_otro == <<"o", "t", "r", "o", ".", "p", "d", "f">>

Documents ==
    {[name |-> PyStr(Name_cartao), parsed_content |-> PyStr(<<"t">>)],
     [name |-> PyStr(<<>>), parsed_content |-> PyStr(<<"t">>)],
     [name |-> PyStr(Name_cartao), parsed_content |-> PyNone]}

\* the sequences without repetition of at most n elements of S
RECURSIVE SeqsUpTo(_, _)
SeqsUpTo(S, n) ==
    IF n = 0 THEN {<<>>}
    ELSE LET shorter == SeqsUpTo(S, n - 1)
         IN  shorter \cup UNION {{Append(q, x) : x \in S \ {q[i] : i \in 1..Len(q)}} :
                                    q \in shorter}

DocumentLists == SeqsUpTo(Documents, MaxDocs)

Name_CARTAO == <<"C", "A", "R", "T", "A", "O", "-", "C", "N", "P", "J", ".", "P", "D", "F">>

\* llm(prompt): raises, or answers 'Ninguno', a document name in capitals,
\* a name that is no candidate, or something that is no str
OracleOutcomes ==
    {Raised("OracleError"), Returned(PyNone), Returned(PyStr(Chars_Ninguno)),
     Returned(PyStr(Name_otro)), Returned(PyStr(Name_CARTAO))}

(***************************************************************************)
(* The classification service: constructed with a rule set, then one       *)
(* classify_documents call (the service keeps no state between calls).     *)
(***************************************************************************)
Init ==
    /\ rules \in RuleSets
    /\ call = NoCall
    /\ result = NoCall
    /\ now = 1
    /\ faq = NewFaqService(NoChecklistFile)
    /\ faq_file = NoFaqFile
    /\ checklist_file = NoChecklistFile
    /\ checklist_read = -1
    /\ first_load = NoCall
    /\ last_op = NoCall
    /\ validation = IdleValidation
    /\ conc = NoCall

Classify ==
    /\ Constructed
    /\ ~Called
    /\ \E documents_data \in DocumentsDataFor(rules["documents"], now),
          ce \in CardAndEnvFor(rules) :
          /\ call' = [documents_data |-> documents_data, card_data |-> ce[1],
                      case_id |-> "case_1", env |-> ce[2]]
          /\ result' = ClassifyDocuments(rules, documents_data, ce[1], "case_1", now, ce[2])
    /\ UNCHANGED <<rules, now, faqVars, validation, conc>>

Next == Classify

Spec == Init /\ [][Next]_vars

(***************************************************************************)
(* validate_documents: the checklist is loaded, then each rule in turn is  *)
(* put to the oracle, then the result is returned.                         *)
(***************************************************************************)
InitValidate ==
    /\ checklist_file \in ChecklistFiles
    /\ faq = NewFaqService(checklist_file)
    /\ validation = IdleValidation
    /\ conc = NoCall
    /\ rules = NoCall
    /\ call = NoCall
    /\ result = NoCall
    /\ now = 0
    /\ faq_file = NoFaqFile
    /\ checklist_read = -1
    /\ first_load = NoCall
    /\ last_op = NoCall

\* lines 203-213
ValidateStart ==
    /\ validation.pc = "idle"
    /\ \E documentos \in DocumentLists :
          LET loaded == LoadChecklist(faq, checklist_file)
          IN  /\ faq' = loaded.svc
              /\ checklist_read' = IF loaded.value # PyNone /\ ~loaded.from_cache
                                   THEN now ELSE checklist_read
              /\ validation' =
                    IF loaded.value = PyNone \/ loaded.value.v = <<>>
                    THEN [pc |-> "done", documentos |-> documentos, checklist |-> <<>>,
                          i |-> 1, st |-> InitialValidation, oracle |-> <<>>,
                          asked |-> {}, ret |-> ChecklistUnavailable]
                    ELSE [pc |-> "loop", documentos |-> documentos,
                          checklist |-> loaded.value.v,
                          i |-> 1, st |-> InitialValidation, oracle |-> <<>>,
                          asked |-> {}, ret |-> NoCall]
    /\ UNCHANGED <<classifyVars, now, faq_file, checklist_file, first_load, last_op, conc>>

\* lines 214-264, for the next rule: the oracle is called unless building
\* the prompt raised; an exception that leaves the loop ends the call
ValidateNextRule ==
    /\ validation.pc = "loop"
    /\ validation.i <= Len(validation.checklist)
    /\ \E outcome \in OracleOutcomes :
          LET regla == validation.checklist[validation.i]
              asked == ~PromptFor(regla, validation.documentos).raised
              st == ValidateRule(validation.st, regla, validation.documentos, outcome)
          IN  validation' =
                [validation EXCEPT
                    !.pc = IF st.raised THEN "done" ELSE "loop",
                    !.i = IF st.raised THEN @ ELSE @ + 1,
                    !.st = st,
                    !.oracle = IF asked THEN Append(@, outcome) ELSE @,
                    !.asked = IF asked THEN @ \cup {validation.i} ELSE @,
                    !.ret = IF st.raised THEN Raised("Exception") ELSE @]
    /\ UNCHANGED <<classifyVars, now, faqVars, conc>>

\* lines 265-266
ValidateReturn ==
    /\ validation.pc = "loop"
    /\ validation.i > Len(validation.checklist)
    /\ validation' = [validation EXCEPT !.pc = "done", !.ret = ValidationResult(validation.st)]
    /\ UNCHANGED <<classifyVars, now, faqVars, conc>>

NextValidate == ValidateStart \/ ValidateNextRule \/ ValidateReturn

SpecValidate == InitValidate /\ [][NextValidate]_vars

(***************************************************************************)
(* The rule repository over time: the files change, the clock advances,    *)
(* the FAQKnowledgeService singleton is called, and the                    *)
(* ClassificationService is constructed from it and then used once.        *)
(***************************************************************************)
FaqFiles(t) ==
    {NoFaqFile} \cup {[exists |-> TRUE, readable |-> r, mtime |-> t] : r \in BOOLEAN}

RepoChecklistFiles(t) ==
    {NoChecklistFile, [exists |-> TRUE, corrupt |-> TRUE, content |-> <<>>, mtime |-> t]}
    \cup {[exists |-> TRUE, corrupt |-> FALSE, mtime |-> t,
           content |-> <<Regla(ChecklistLabels[1], Chars_Bloqueante)>>]}

\* the sections _load_rules asks for
Sections == {"documentos", "pendencias", "acciones"}

\* the loaded FAQ source is older than the time-to-live or than FAQ.pdf
FaqStale ==
    /\ faq.last_load_time # PyNone
    /\ \/ now - faq.last_load_time.t > CACHE_MINUTES
       \/ faq_file.exists /\ faq_file.mtime > faq.last_load_time.t

\* the cached checklist is older than the time-to-live or than its file
ChecklistStale ==
    /\ checklist_read >= 0
    /\ \/ now - checklist_read > CACHE_MINUTES
       \/ checklist_file.exists /\ checklist_file.mtime > checklist_read

InitRepo ==
    /\ faq_file \in FaqFiles(0)
    /\ checklist_file \in RepoChecklistFiles(0)
    /\ faq = NewFaqService(checklist_file)
    /\ checklist_read = -1
    /\ now = 0
    /\ rules = NoCall
    /\ call = NoCall
    /\ result = NoCall
    /\ first_load = NoCall
    /\ last_op = NoCall
    /\ validation = IdleValidation
    /\ conc = NoCall

\* datetime.now() advances
Tick ==
    /\ now < MaxTime
    /\ now' = now + TickMinutes
    /\ UNCHANGED <<classifyVars, faqVars, validation, conc>>

\* FAQ.pdf is written, made unreadable or removed
WriteFaqFile ==
    /\ \E f \in FaqFiles(now) : f # faq_file /\ faq_file' = f
    /\ UNCHANGED <<classifyVars, now, faq, checklist_file, checklist_read, first_load,
                   last_op, validation, conc>>

\* faq_checklist.json is written, corrupted or removed
WriteChecklistFile ==
    /\ \E f \in RepoChecklistFiles(now) : f # checklist_file /\ checklist_file' = f
    /\ UNCHANGED <<classifyVars, now, faq, faq_file, checklist_read, first_load,
                   last_op, validation, conc>>

CallGetKnowledgeSource ==
    /\ LET got == GetKnowledgeSource(faq, faq_file, now)
       IN  /\ faq' = got.svc
           /\ last_op' = [op |-> "get_knowledge_source", stale |-> FaqStale,
                          from_cache |-> got.value # PyNone /\ ~got.reloaded,
                          reloaded |-> got.reloaded,
                          loaded_before |-> faq.knowledge_source # PyNone,
                          no_source |-> got.value = PyNone]
    /\ UNCHANGED <<classifyVars, now, faq_file, checklist_file, checklist_read,
                   first_load, validation, conc>>

CallExtractRules ==
    /\ \E section \in Sections :
          LET got == ExtractRules(faq, section, faq_file, now)
          IN  /\ faq' = got.svc
              /\ last_op' = [op |-> "extract_rules", stale |-> FaqStale,
                             from_cache |-> got.from_cache, reloaded |-> got.reloaded,
                             loaded_before |-> faq.knowledge_source # PyNone,
                             no_source |-> got.no_source]
    /\ UNCHANGED <<classifyVars, now, faq_file, checklist_file, checklist_read,
                   first_load, validation, conc>>

CallLoadChecklist ==
    /\ LET got == LoadChecklist(faq, checklist_file)
       IN  /\ faq' = got.svc
           /\ checklist_read' = IF got.value # PyNone /\ ~got.from_cache
                                THEN now ELSE checklist_read
           /\ last_op' = [op |-> "load_checklist", stale |-> ChecklistStale,
                          from_cache |-> got.from_cache,
                          reloaded |-> got.value # PyNone /\ ~got.from_cache]
    /\ UNCHANGED <<classifyVars, now, faq_file, checklist_file, first_load, validation, conc>>

\* ClassificationService.__init__
ServiceInit ==
    /\ ~Constructed
    /\ LET loaded == LoadRules(faq, faq_file, now)
       IN  /\ rules' = loaded.rules
           /\ faq' = loaded.svc
    /\ first_load' = [available |-> faq_file.exists /\ faq_file.readable]
    /\ last_op' = [op |-> "_load_rules"]
    /\ UNCHANGED <<call, result, now, faq_file, checklist_file, checklist_read, validation, conc>>

NextRepo ==
    \/ Tick
    \/ WriteFaqFile
    \/ WriteChecklistFile
    \/ CallGetKnowledgeSource
    \/ CallExtractRules
    \/ CallLoadChecklist
    \/ ServiceInit
    \/ Classify

SpecRepo == InitRepo /\ [][NextRepo]_vars

(***************************************************************************)
(* Threads calling extract_rules on the shared instance                    *)
(* faq_knowledge_service.  The service takes no lock, so the threads       *)
(* interleave between the statements of extract_rules and of               *)
(* get_knowledge_source.  The extraction yields {} whatever the source, so *)
(* derived_from records, for each cached section, the version of the       *)
(* source the caching thread held; observed is what a cache hit returned   *)
(* together with the source the instance held at that moment.              *)
(***************************************************************************)
Threads == 1..NumThreads

ConcSections == {"documentos", "pendencias"}

IdleThread == [pc |-> "idle", section |-> "", ks |-> PyNone, original_cwd |-> ""]

\* str(self._faq_path.parent.parent), the directory that holds knowledge/
FaqProjectDir == "project_dir"

\* the working directory of the process when the service is first used
LaunchDirs == {"launch_dir", FaqProjectDir}

InitConcurrent ==
    /\ faq_file = [exists |-> TRUE, readable |-> TRUE, mtime |-> 0]
    /\ faq = NewFaqService(NoChecklistFile)
    /\ now = 0
    /\ \E dir \in LaunchDirs :
          conc = [threads |-> [t \in Threads |-> IdleThread],
                  derived_from |-> EmptyDict,
                  observed |-> NoCall,
                  cwd |-> dir,
                  launch_cwd |-> dir]
    /\ checklist_file = NoChecklistFile
    /\ checklist_read = -1
    /\ rules = NoCall
    /\ call = NoCall
    /\ result = NoCall
    /\ first_load = NoCall
    /\ last_op = NoCall
    /\ validation = IdleValidation

concRest == <<classifyVars, checklist_file, checklist_read, first_load, last_op, validation>>

\* extract_rules, lines 146-148: a cached section is returned at once
ExtractRulesEnter(t) ==
    /\ conc.threads[t].pc = "idle"
    /\ \E section \in ConcSections :
          conc' = IF section \in DOMAIN faq.rules_cache
                  THEN [conc EXCEPT !.observed =
                           [rules_from |-> conc.derived_from[section],
                            source |-> faq.knowledge_source.version]]
                  ELSE [conc EXCEPT !.threads[t] =
                           [pc |-> "get", section |-> section, ks |-> PyNone,
                            original_cwd |-> ""]]
    /\ UNCHANGED <<faq, faq_file, now, concRest>>

\* get_knowledge_source, lines 105-113
GetKnowledgeSourceEnter(t) ==
    /\ conc.threads[t].pc = "get"
    /\ LET located == [faq EXCEPT !.faq_path = [py |-> "Path"]]
       IN  /\ faq' = located
           /\ conc' = [conc EXCEPT !.threads[t].pc =
                          IF ShouldReload(located, faq_file, now)
                          THEN "save_cwd" ELSE "return"]
    /\ UNCHANGED <<faq_file, now, concRest>>

\* line 117: original_cwd = os.getcwd()
ReloadSaveCwd(t) ==
    /\ conc.threads[t].pc = "save_cwd"
    /\ conc' = [conc EXCEPT !.threads[t].pc = "chdir",
                            !.threads[t].original_cwd = conc.cwd]
    /\ UNCHANGED <<faq, faq_file, now, concRest>>

\* line 118: os.chdir(str(self._faq_path.parent.parent))
ReloadChdir(t) ==
    /\ conc.threads[t].pc = "chdir"
    /\ conc' = [conc EXCEPT !.threads[t].pc = "construct", !.cwd = FaqProjectDir]
    /\ UNCHANGED <<faq, faq_file, now, concRest>>

\* line 122 raises: the finally block runs and the handler returns None
ReloadConstructFails(t) ==
    /\ conc.threads[t].pc = "construct"
    /\ conc' = [conc EXCEPT !.threads[t].pc = "restore_failed"]
    /\ UNCHANGED <<faq, faq_file, now, concRest>>

\* lines 126-127: os.chdir(original_cwd); after a failed reload
\* get_knowledge_source returns None and extract_rules returns {}
ReloadRestoreCwd(t) ==
    /\ conc.threads[t].pc \in {"restore", "restore_failed"}
    /\ conc' = [conc EXCEPT
                   !.cwd = conc.threads[t].original_cwd,
                   !.threads[t] = IF conc.threads[t].pc = "restore"
                                  THEN [@ EXCEPT !.pc = "return"]
                                  ELSE IdleThread]
    /\ UNCHANGED <<faq, faq_file, now, concRest>>

\* line 122
ReloadConstruct(t) ==
    /\ conc.threads[t].pc = "construct"
    /\ faq' = [faq EXCEPT !.knowledge_source =
                  [py |-> "PDFKnowledgeSource", version |-> faq_file.mtime]]
    /\ conc' = [conc EXCEPT !.threads[t].pc = "stamp"]
    /\ UNCHANGED <<faq_file, now, concRest>>

\* line 123
ReloadStamp(t) ==
    /\ conc.threads[t].pc = "stamp"
    /\ faq' = [faq EXCEPT !.last_load_time = Time(now)]
    /\ conc' = [conc EXCEPT !.threads[t].pc = "clear"]
    /\ UNCHANGED <<faq_file, now, concRest>>

\* line 124
ReloadClear(t) ==
    /\ conc.threads[t].pc = "clear"
    /\ faq' = [faq EXCEPT !.rules_cache = EmptyDict]
    /\ conc' = [conc EXCEPT !.threads[t].pc = "restore", !.derived_from = EmptyDict]
    /\ UNCHANGED <<faq_file, now, concRest>>

\* line 129, and line 150 of extract_rules
GetKnowledgeSourceReturn(t) ==
    /\ conc.threads[t].pc = "return"
    /\ conc' = [conc EXCEPT !.threads[t].pc = "store",
                            !.threads[t].ks = faq.knowledge_source]
    /\ UNCHANGED <<faq, faq_file, now, concRest>>

\* extract_rules, lines 154-161
ExtractRulesStore(t) ==
    /\ conc.threads[t].pc = "store"
    /\ LET section == conc.threads[t].section
       IN  /\ faq' = [faq EXCEPT !.rules_cache = (section :> EmptyDict) @@ @]
           /\ conc' = [conc EXCEPT
                          !.threads[t] = IdleThread,
                          !.derived_from = (section :> conc.threads[t].ks.version) @@ @]
    /\ UNCHANGED <<faq_file, now, concRest>>

\* FAQ.pdf is rewritten
RewriteFaqFile ==
    /\ faq_file.mtime < now
    /\ faq_file' = [faq_file EXCEPT !.mtime = now]
    /\ UNCHANGED <<faq, now, conc, concRest>>

ConcTick ==
    /\ now < MaxTime
    /\ now' = now + TickMinutes
    /\ UNCHANGED <<faq, faq_file, conc, concRest>>

NextConcurrent ==
    \/ \E t \in Threads :
          \/ ExtractRulesEnter(t)
          \/ GetKnowledgeSourceEnter(t)
          \/ ReloadSaveCwd(t)
          \/ ReloadChdir(t)
          \/ ReloadConstruct(t)
          \/ ReloadConstructFails(t)
          \/ ReloadRestoreCwd(t)
          \/ ReloadStamp(t)
          \/ ReloadClear(t)
          \/ GetKnowledgeSourceReturn(t)
          \/ ExtractRulesStore(t)
    \/ RewriteFaqFile
    \/ ConcTick

SpecConcurrent == InitConcurrent /\ [][NextConcurrent]_vars

(***************************************************************************)
(* _normalize_name applied to a name, and again to what it returned.       *)
(***************************************************************************)
NameChars == {"a", "B", "ã", "1", "-", " ", "!"}

RECURSIVE StringsUpTo(_, _)
StringsUpTo(S, n) ==
    IF n = 0 THEN {<<>>}
    ELSE LET shorter == StringsUpTo(S, n - 1)
         IN  shorter \cup {Append(q, c) : q \in shorter, c \in S}

InitNormalize ==
    /\ call \in {[name |-> x] : x \in StringsUpTo(NameChars, MaxNameLen)}
    /\ result = NoCall
    /\ rules = NoCall
    /\ now = 0
    /\ faq = NewFaqService(NoChecklistFile)
    /\ faq_file = NoFaqFile
    /\ checklist_file = NoChecklistFile
    /\ checklist_read = -1
    /\ first_load = NoCall
    /\ last_op = NoCall
    /\ validation = IdleValidation
    /\ conc = NoCall

\* _normalize_name(name)
Normalize ==
    /\ "pending" \in DOMAIN result
    /\ result' = [once |-> NormalizeName(call.name)]
    /\ UNCHANGED <<rules, call, now, faqVars, validation, conc>>

\* _normalize_name(_normalize_name(name))
NormalizeAgain ==
    /\ DOMAIN result = {"once"}
    /\ result' = [once |-> result.once, twice |-> NormalizeName(result.once)]
    /\ UNCHANGED <<rules, call, now, faqVars, validation, conc>>

NextNormalize == Normalize \/ NormalizeAgain

SpecNormalize == InitNormalize /\ [][NextNormalize]_vars

(***************************************************************************)
(* PipefyService.process_triagem_result (pipefy_service.py) with an        *)
(* injected client, and PipefyClient.move_card_to_phase                    *)
(* (pipefy_client.py).  Two classes are named PipefyAPIError: the one of   *)
(* pipefy_service.py (lines 7-10), which the service's handler names, and  *)
(* the one of pipefy_client.py (lines 8-10), which the client raises.      *)
(***************************************************************************)
ServicePipefyAPIError == "src.services.pipefy_service.PipefyAPIError"
ClientPipefyAPIError == "src.integrations.pipefy_client.PipefyAPIError"

\* what an awaited call of the injected client does: it returns a dict with
\* the keys read afterwards, or a dict without them, or raises
MoveOutcomes ==
    {Returned([success |-> ok, new_phase_id |-> "123", new_phase_name |-> "Aprobado"]) :
        ok \in BOOLEAN}
    \cup {Returned(EmptyDict), Raised(ClientPipefyAPIError),
          Raised(ServicePipefyAPIError), Raised("Exception")}

UpdateOutcomes ==
    {Returned([success |-> TRUE]), Returned(EmptyDict),
     Raised(ClientPipefyAPIError), Raised("Exception")}

\* the attributes of settings that process_triagem_result reads
SettingsValues ==
    {[FIELD_ID_INFORME |-> "informe"],
     [FIELD_ID_INFORME |-> "informe", FIELD_ID_SUMMARY_INFORME |-> "resumen"],
     EmptyDict}

\* analysis_result: a dict, with or without is_complete, or None
AnalysisResults == {[is_complete |-> TRUE], [is_complete |-> FALSE], EmptyDict, PyNone}

\* ResultFormatter.format_analysis_result: the two reports of a dict;
\* analysis_result.get raises AttributeError when it is not a dict
FormatAnalysisResult(analysis_result, card_id) ==
    IF ~IsDict(analysis_result) THEN Raised("AttributeError")
    ELSE LET estado == IF Get(analysis_result, "is_complete", FALSE)
                       THEN "Completo" ELSE "Incompleto"
         IN  Returned([detailed_report |-> <<"informe", card_id, estado>>,
                       summary_report |-> <<"resumen", card_id, estado>>])

\* (mutation) the handlers record the error and leave success as it was
HandleError_KeepsSuccess(results, exc) ==
    [results EXCEPT
        !.errors = Append(@, IF exc = ServicePipefyAPIError
                             THEN [text |-> "Error de API Pipefy", exc |-> exc]
                             ELSE [text |-> "Error inesperado", exc |-> exc])]

\* lines 90-100: the two handlers; the first names the PipefyAPIError of
\* pipefy_service.py
HandleError(results, exc) ==
    [results EXCEPT
        !.success = FALSE,
        !.errors = Append(@, IF exc = ServicePipefyAPIError
                             THEN [text |-> "Error de API Pipefy", exc |-> exc]
                             ELSE [text |-> "Error inesperado", exc |-> exc])]

\* lines 75-87: the update of the summary field, if settings has the attribute
UpdateSummary(results, card_id, formatted, settings, summary) ==
    IF "FIELD_ID_SUMMARY_INFORME" \notin DOMAIN settings THEN results
    ELSE
    LET called == [results EXCEPT !.calls = Append(@,
                       [method |-> "update_card_field",
                        field_id |-> settings["FIELD_ID_SUMMARY_INFORME"],
                        value |-> formatted.summary_report])]
    IN  IF summary.raised THEN HandleError(called, summary.exc)
        ELSE IF "success" \notin DOMAIN summary.value THEN HandleError(called, "KeyError")
        ELSE [called EXCEPT !.operations = Append(@,
                 [type |-> "update_summary_report", success |-> summary.value["success"],
                  field_id |-> settings["FIELD_ID_SUMMARY_INFORME"]])]

\* lines 62-73: the update of the detailed report; settings.FIELD_ID_INFORME
\* is evaluated before the call
UpdateDetailed(results, card_id, formatted, settings, update, summary) ==
    IF "FIELD_ID_INFORME" \notin DOMAIN settings THEN HandleError(results, "AttributeError")
    ELSE
    LET called == [results EXCEPT !.calls = Append(@,
                       [method |-> "update_card_field",
                        field_id |-> settings["FIELD_ID_INFORME"],
                        value |-> formatted.detailed_report])]
    IN  IF update.raised THEN HandleError(called, update.exc)
        ELSE IF "success" \notin DOMAIN update.value THEN HandleError(called, "KeyError")
        ELSE UpdateSummary(
                [called EXCEPT !.operations = Append(@,
                    [type |-> "update_detailed_report", success |-> update.value["success"],
                     field_id |-> settings["FIELD_ID_INFORME"]])],
                card_id, formatted, settings, summary)

\* (mutation) the move is awaited a second time before its result is recorded
MoveCard_Twice(results, card_id, classification, move) ==
    LET m == [method |-> "move_card_by_classification", classification |-> classification]
        called == [results EXCEPT !.calls = Append(Append(@, m), m)]
    IN  IF move.raised THEN [st |-> HandleError(called, move.exc), failed |-> TRUE]
        ELSE IF DOMAIN move.value # {"success", "new_phase_id", "new_phase_name"}
        THEN [st |-> HandleError(called, "KeyError"), failed |-> TRUE]
        ELSE [st |-> [called EXCEPT !.operations = Append(@,
                        [type |-> "move_card", success |-> move.value["success"],
                         new_phase_id |-> move.value["new_phase_id"],
                         new_phase_name |-> move.value["new_phase_name"]])],
              failed |-> FALSE]

\* lines 54-60: the move and the operation recorded for it
MoveCard(results, card_id, classification, move) ==
    LET called == [results EXCEPT !.calls = Append(@,
                       [method |-> "move_card_by_classification",
                        classification |-> classification])]
    IN  IF move.raised THEN [st |-> HandleError(called, move.exc), failed |-> TRUE]
        ELSE IF DOMAIN move.value # {"success", "new_phase_id", "new_phase_name"}
        THEN [st |-> HandleError(called, "KeyError"), failed |-> TRUE]
        ELSE [st |-> [called EXCEPT !.operations = Append(@,
                        [type |-> "move_card", success |-> move.value["success"],
                         new_phase_id |-> move.value["new_phase_id"],
                         new_phase_name |-> move.value["new_phase_name"]])],
              failed |-> FALSE]

\* PipefyService.process_triagem_result: the dict returned, with the calls
\* made to the client
ProcessTriagemResult(card_id, analysis_result, settings, move, update, summary) ==
    LET results == [success |-> TRUE, card_id |-> card_id, operations |-> <<>>,
                    errors |-> <<>>, calls |-> <<>>]
        formatted == FormatAnalysisResult(analysis_result, card_id)
    IN  IF formatted.raised THEN HandleError(results, formatted.exc)
        ELSE
        LET classification == IF Get(analysis_result, "is_complete", FALSE)
                              THEN "APROVADO" ELSE "PENDENCIA_BLOQUEANTE"
            moved == MoveCard(results, card_id, classification, move)
        IN  IF moved.failed THEN moved.st
            ELSE UpdateDetailed(moved.st, card_id, formatted.value, settings, update, summary)

\* what execute_query does: the data of the response, or PipefyAPIError
ExecuteQueryOutcomes ==
    {Returned([moveCardToPhase |-> [card |-> [id |-> "123"]]]),
     Returned([moveCardToPhase |-> PyNone]),
     Returned([moveCardToPhase |-> EmptyDict]),
     Returned(EmptyDict),
     Raised(ClientPipefyAPIError)}

\* PipefyClient.move_card_to_phase, lines 160-173: every exception of the
\* try block, also that of .get on None, is caught and False is returned
MoveCardToPhase(query) ==
    IF query.raised THEN Returned(FALSE)
    ELSE LET data == query.value
             moved == Get(data, "moveCardToPhase", EmptyDict)
         IN  IF data = EmptyDict THEN Returned(FALSE)
             ELSE IF ~IsDict(moved) THEN Returned(FALSE)
             ELSE Returned("card" \in DOMAIN moved)

InitPipefy ==
    /\ call \in {[card_id |-> "card_123", analysis_result |-> a, settings |-> st,
                  move |-> m, update |-> u, summary |-> sm] :
                    a \in AnalysisResults, st \in SettingsValues,
                    m \in MoveOutcomes, u \in UpdateOutcomes, sm \in UpdateOutcomes}
    /\ result = NoCall
    /\ last_op = NoCall
    /\ rules = NoCall
    /\ now = 0
    /\ faq = NewFaqService(NoChecklistFile)
    /\ faq_file = NoFaqFile
    /\ checklist_file = NoChecklistFile
    /\ checklist_read = -1
    /\ first_load = NoCall
    /\ validation = IdleValidation
    /\ conc = NoCall

\* await service.process_triagem_result(card_id, analysis_result)
CallProcessTriagemResult ==
    /\ "pending" \in DOMAIN result
    /\ result' = Returned(ProcessTriagemResult(call.card_id, call.analysis_result,
                              call.settings, call.move, call.update, call.summary))
    /\ UNCHANGED <<rules, call, now, faqVars, validation, conc>>

\* await client.move_card_to_phase(card_id, phase_id)
CallMoveCardToPhase ==
    /\ "pending" \in DOMAIN last_op
    /\ \E query \in ExecuteQueryOutcomes :
          last_op' = [op |-> "move_card_to_phase", query |-> query,
                      ret |-> MoveCardToPhase(query)]
    /\ UNCHANGED <<rules, call, result, now, faq, faq_file, checklist_file,
                   checklist_read, first_load, validation, conc>>

NextPipefy == CallProcessTriagemResult \/ CallMoveCardToPhase

SpecPipefy == InitPipefy /\ [][NextPipefy]_vars

(***************************************************************************)
(* Properties of classify_documents (specification Spec).                  *)
(***************************************************************************)
\* the call was made and returned a ClassificationResult
Classified == Called /\ ~result.raised

\* the rule of the i-th analysis: analyses are in the order of the rules
RuleAt(i) == rules["documents"][i].rule

AnalysisAt(i) == result.value.document_analyses[i]

NumAnalyses == Len(result.value.document_analyses)

\* blocking_if_invalid is set to true / to false in rule i
FlagBlocking(i) ==
    "blocking_if_invalid" \in DOMAIN RuleAt(i) /\ RuleAt(i)["blocking_if_invalid"]

FlagNonBlocking(i) ==
    "blocking_if_invalid" \in DOMAIN RuleAt(i) /\ ~RuleAt(i)["blocking_if_invalid"]

\* the required flag of rule i is true, or missing (true is its default)
RequiredOrDefault(i) == "required" \notin DOMAIN RuleAt(i) \/ RuleAt(i)["required"]

\* C1: precedence law.  Whenever at least one analysis is not valid for a
\* rule whose blocking_if_invalid is true, the status returned is
\* Pendencia_Bloqueante, however many analyses are not valid for rules whose
\* blocking_if_invalid is false.
C1_Precedence ==
    Classified =>
        ((\E i \in 1..NumAnalyses : ~AnalysisAt(i).is_valid /\ FlagBlocking(i))
            => result.value.classification_type = PENDENCIA_BLOQUEANTE)

\* a blocking violation together with a non-blocking one
C1_Witness ==
    /\ Classified
    /\ \E i, j \in 1..NumAnalyses :
          /\ ~AnalysisAt(i).is_valid /\ FlagBlocking(i)
          /\ ~AnalysisAt(j).is_valid /\ FlagNonBlocking(j)
    /\ result.value.classification_type = PENDENCIA_BLOQUEANTE

\* C2: when every rule's document is present and valid, the status is
\* Aprovado and blocking_issues and non_blocking_issues are both empty.
C2_AllValidApproved ==
    Classified =>
        ((\A i \in 1..NumAnalyses : AnalysisAt(i).is_present /\ AnalysisAt(i).is_valid)
            => /\ result.value.classification_type = APROVADO
               /\ result.value.blocking_issues = <<>>
               /\ result.value.non_blocking_issues = <<>>)

C2_Witness ==
    /\ Classified
    /\ NumAnalyses >= 2
    /\ \A i \in 1..NumAnalyses : AnalysisAt(i).is_present /\ AnalysisAt(i).is_valid
    /\ result.value.classification_type = APROVADO

\* C3 as stated: Pendencia_Bloqueante whenever, for some rule with
\* blocking_if_invalid = true, the analysis has is_present = false or
\* is_valid = false, whatever the rule's other flags.
C3_AbsentOrInvalidBlocks ==
    Classified =>
        ((\E i \in 1..NumAnalyses :
              FlagBlocking(i) /\ (~AnalysisAt(i).is_present \/ ~AnalysisAt(i).is_valid))
            => result.value.classification_type = PENDENCIA_BLOQUEANTE)

\* C3 amended: Pendencia_Bloqueante whenever, for some rule with
\* blocking_if_invalid = true, the analysis has is_valid = false, or has
\* is_present = false while the rule's required flag is true or missing;
\* this holds for every value of validate_expiry and auto_generable.
C3_RequiredAbsentOrInvalidBlocks ==
    Classified =>
        ((\E i \in 1..NumAnalyses :
              /\ FlagBlocking(i)
              /\ \/ ~AnalysisAt(i).is_valid
                 \/ ~AnalysisAt(i).is_present /\ RequiredOrDefault(i))
            => result.value.classification_type = PENDENCIA_BLOQUEANTE)

\* an absent document of a blocking, auto-generable rule that requires it
C3_Witness ==
    /\ Classified
    /\ \E i \in 1..NumAnalyses :
          /\ FlagBlocking(i) /\ RequiredOrDefault(i)
          /\ ~AnalysisAt(i).is_present
          /\ RuleAt(i)["auto_generable"] /\ RuleAt(i)["validate_expiry"]
    /\ result.value.classification_type = PENDENCIA_BLOQUEANTE

\* blocking_if_invalid of rule i is true or missing (true is its default)
BlockingOrDefault(i) ==
    "blocking_if_invalid" \notin DOMAIN RuleAt(i) \/ RuleAt(i)["blocking_if_invalid"]

AbsentOrInvalid(i) == ~AnalysisAt(i).is_present \/ ~AnalysisAt(i).is_valid

\* C4 as stated: Pendencia_NaoBloqueante exactly when no analysis is absent
\* or invalid for a blocking rule and at least one analysis is absent or
\* invalid for a rule with blocking_if_invalid = false.
C4_NonBlockingExactly ==
    Classified =>
        (result.value.classification_type = PENDENCIA_NAO_BLOQUEANTE
            <=> /\ ~\E i \in 1..NumAnalyses : BlockingOrDefault(i) /\ AbsentOrInvalid(i)
                /\ \E i \in 1..NumAnalyses : FlagNonBlocking(i) /\ AbsentOrInvalid(i))

\* C4 amended: Pendencia_NaoBloqueante exactly when no analysis is invalid
\* for a rule whose blocking_if_invalid is true or missing and at least one
\* analysis is invalid for a rule with blocking_if_invalid = false, where an
\* absent document makes the analysis invalid only if the rule's required
\* flag is true or missing.
C4_NonBlockingExactlyInvalid ==
    Classified =>
        /\ result.value.classification_type = PENDENCIA_NAO_BLOQUEANTE
            <=> /\ ~\E i \in 1..NumAnalyses : BlockingOrDefault(i) /\ ~AnalysisAt(i).is_valid
                /\ \E i \in 1..NumAnalyses : FlagNonBlocking(i) /\ ~AnalysisAt(i).is_valid
        /\ \A i \in 1..NumAnalyses :
               ~AnalysisAt(i).is_present => (~AnalysisAt(i).is_valid <=> RequiredOrDefault(i))

\* Scenario C: a single rule, non-blocking and required, whose document is absent
C4_Witness ==
    /\ Classified
    /\ NumAnalyses = 1
    /\ FlagNonBlocking(1) /\ RequiredOrDefault(1)
    /\ ~AnalysisAt(1).is_present
    /\ result.value.classification_type = PENDENCIA_NAO_BLOQUEANTE
    /\ Len(result.value.non_blocking_issues) = 1

\* the arguments are of the declared types: documents_data is a dict of
\* dicts and card_data is a dict
WellTypedCall ==
    /\ IsDict(call.documents_data)
    /\ \A k \in DOMAIN call.documents_data : IsDict(call.documents_data[k])
    /\ IsDict(call.card_data)

\* C5: once rules are loaded, classify_documents never propagates an
\* exception, whatever the fields of the documents hold (here: for every
\* call whose arguments are dicts and whose imports succeed).
C5_NeverRaises ==
    (Called /\ "documents" \in DOMAIN rules /\ WellTypedCall /\ call.env.imports)
        => ~result.raised

\* the number of actions of the given type in the action list returned
CountActions(type) ==
    Cardinality({i \in 1..Len(result.value.auto_actions) :
                    result.value.auto_actions[i].type = type})

\* Scenario B: a single rule, for Cartão CNPJ, blocking, auto-generable and
\* required; no documents submitted; card_data a dict; imports succeed
ScenarioB ==
    /\ Called
    /\ Len(rules["documents"]) = 1
    /\ rules["documents"][1].doc_type = cartao_cnpj_tag
    /\ FlagBlocking(1) /\ RequiredOrDefault(1) /\ RuleAt(1)["auto_generable"]
    /\ call.documents_data = EmptyDict
    /\ IsDict(call.card_data)
    /\ call.env.imports

\* C13: in Scenario B classify_documents returns Pendencia_Bloqueante,
\* exactly one blocking issue, naming that rule, and an action list with
\* exactly one GENERATE_DOCUMENT action.
C13_ScenarioB ==
    ScenarioB =>
        /\ ~result.raised
        /\ result.value.classification_type = PENDENCIA_BLOQUEANTE
        /\ result.value.blocking_issues = <<IssueMissing(cartao_cnpj_tag)>>
        /\ CountActions("GENERATE_DOCUMENT") = 1

\* the document submitted for rule i, {} when there is none (line 87)
DocDataAt(i) == Get(call.documents_data, rules["documents"][i].doc_type, EmptyDict)

\* rule i validates expiry and its document is present (its parsed_content
\* is a str that is not blank) and declares an expiry_date
DeclaresExpiry(i) ==
    /\ Get(RuleAt(i), "validate_expiry", FALSE)
    /\ "parsed_content" \in DOMAIN DocDataAt(i)
    /\ DocDataAt(i)["parsed_content"].py = "str"
    /\ Strip(DocDataAt(i)["parsed_content"].v) # <<>>
    /\ "expiry_date" \in DOMAIN DocDataAt(i)

\* C14: Scenario D.  For a rule with validate_expiry = true and a present
\* submission that declares an expiry_date: a date in the past, or a string
\* that is no ISO date, marks the analysis is_valid = false with the issue
\* of that cause and confidence 0.5; a date that is not in the past adds no
\* expiry issue.
C14_ExpiryMarksInvalid ==
    (Called /\ WellTypedCall /\ call.env.imports) =>
        \A i \in 1..Len(rules["documents"]) :
            DeclaresExpiry(i) =>
                LET e == DocDataAt(i)["expiry_date"]
                IN  /\ (e.py = "isostr" /\ e.t < now) =>
                          /\ Classified
                          /\ ~AnalysisAt(i).is_valid
                          /\ AnalysisAt(i).confidence_score = 1
                          /\ \E k \in 1..Len(AnalysisAt(i).issues) :
                                AnalysisAt(i).issues[k] =
                                    IssueExpired(AnalysisAt(i).document_type)
                    /\ e.py = "str" =>
                          /\ Classified
                          /\ ~AnalysisAt(i).is_valid
                          /\ AnalysisAt(i).confidence_score = 1
                          /\ \E k \in 1..Len(AnalysisAt(i).issues) :
                                AnalysisAt(i).issues[k] =
                                    IssueBadDate(AnalysisAt(i).document_type, e)
                    /\ (e.py = "isostr" /\ e.t >= now /\ Classified) =>
                          \A k \in 1..Len(AnalysisAt(i).issues) :
                              AnalysisAt(i).issues[k].issue
                                  \notin {"expirado", "formato_fecha_invalido"}

\* C15: the aggregate confidence_score, the fraction num/den, lies in
\* [0, 1]; it is the arithmetic mean of the per-rule scores, each 1.0 (two
\* halves) when the analysis is present and valid and 0.5 otherwise; and it
\* is 0.0 when there is no analysis.
C15_ConfidenceIsMean ==
    Classified =>
        LET score == result.value.confidence_score
            halves == [i \in 1..NumAnalyses |->
                          IF AnalysisAt(i).is_present /\ AnalysisAt(i).is_valid
                          THEN 2 ELSE 1]
        IN  /\ 0 <= score.num /\ score.num <= score.den /\ score.den > 0
            /\ NumAnalyses = 0 => score.num = 0
            /\ NumAnalyses > 0 =>
                  score.num * (2 * NumAnalyses) = SumSeq(halves) * score.den

\* two analyses, one present and valid and one not: the mean is 0.75
C15_Witness ==
    /\ Classified
    /\ NumAnalyses = 2
    /\ AnalysisAt(1).is_present /\ AnalysisAt(1).is_valid
    /\ ~AnalysisAt(2).is_valid
    /\ result.value.confidence_score.num * 4 = 3 * result.value.confidence_score.den

\* C17: the action list holds exactly one notification action when
\* blocking_issues is not empty, and none when it is empty, also when
\* non_blocking_issues is not empty.
C17_NotifyIffBlocking ==
    Classified =>
        CountActions("NOTIFY_WHATSAPP") =
            IF result.value.blocking_issues # <<>> THEN 1 ELSE 0

\* only non-blocking pendencies: a non-blocking status, an issue in
\* non_blocking_issues, and no notification
C17_Witness ==
    /\ Classified
    /\ result.value.classification_type = PENDENCIA_NAO_BLOQUEANTE
    /\ result.value.blocking_issues = <<>>
    /\ result.value.non_blocking_issues # <<>>
    /\ CountActions("NOTIFY_WHATSAPP") = 0

\* the issues of the analyses whose rule satisfies Chosen, in the order of
\* the analyses and, within one analysis, in the order they were found
IssuesWhere(Chosen(_)) ==
    Flatten([i \in 1..NumAnalyses |->
                IF Chosen(i) THEN AnalysisAt(i).issues ELSE <<>>])

NotBlockingOrDefault(i) == ~BlockingOrDefault(i)

\* C18: every issue of every analysis is in exactly one of blocking_issues
\* and non_blocking_issues, the one chosen by the blocking_if_invalid flag of
\* the analysis's rule (blocking when the rule has no such flag), and each
\* list keeps the order of the checklist and, within one rule, the order in
\* which the issues were found.
C18_IssuesPartitioned ==
    Classified =>
        LET b == result.value.blocking_issues
            n == result.value.non_blocking_issues
        IN  /\ b = IssuesWhere(BlockingOrDefault)
            /\ n = IssuesWhere(NotBlockingOrDefault)
            /\ \A i \in 1..NumAnalyses :
                  \A k \in 1..Len(AnalysisAt(i).issues) :
                     LET issue == AnalysisAt(i).issues[k]
                         inB == \E p \in 1..Len(b) : b[p] = issue
                         inN == \E p \in 1..Len(n) : n[p] = issue
                     IN  /\ FlagBlocking(i) => inB /\ ~inN
                         /\ FlagNonBlocking(i) => inN /\ ~inB
                         /\ inB # inN

\* two rules, the first non-blocking and the second blocking, both with
\* an issue: each list holds the issues of one rule
C18_Witness ==
    /\ Classified
    /\ NumAnalyses = 2
    /\ FlagNonBlocking(1) /\ FlagBlocking(2)
    /\ AnalysisAt(1).issues # <<>> /\ AnalysisAt(2).issues # <<>>
    /\ result.value.non_blocking_issues = AnalysisAt(1).issues
    /\ result.value.blocking_issues = AnalysisAt(2).issues

\* the position in the checklist of the rule of a document type
RuleIndex(doc_type) ==
    CHOOSE i \in 1..Len(rules["documents"]) : rules["documents"][i].doc_type = doc_type

\* C19: in the action list returned, the MOVE_CARD action, if any, is the
\* first element, the GENERATE_DOCUMENT actions follow in checklist order,
\* and the notification action, if any, is the last element.
C19_ActionOrder ==
    Classified =>
        LET a == result.value.auto_actions
        IN  \A p \in 1..Len(a) :
               /\ a[p].type = "MOVE_CARD" => p = 1
               /\ a[p].type = "NOTIFY_WHATSAPP" => p = Len(a)
               /\ \A q \in (p + 1)..Len(a) :
                     (a[p].type = "GENERATE_DOCUMENT" /\ a[q].type = "GENERATE_DOCUMENT")
                        => RuleIndex(a[p].document_type) <= RuleIndex(a[q].document_type)

\* C21: classify_documents only derives action descriptors; during the
\* call no request is issued to an action executor, whatever the documents
\* and the card's CNPJ.
C21_NoRequestIssued ==
    Called => result.posts = <<>>

\* the Cartão CNPJ rule exists and its document is absent
CartaoCnpjAbsent ==
    \E i \in 1..NumAnalyses :
        /\ AnalysisAt(i).document_type = cartao_cnpj_tag
        /\ ~AnalysisAt(i).is_present

\* the card's CNPJ has exactly CNPJ_DIGITS digits once the non-digits are removed
CnpjWellFormed ==
    Len(CnpjClean(Get(call.card_data, "cnpj", PyStr(<<>>)))) = CNPJ_DIGITS

\* the number of GENERATE_DOCUMENT actions for Cartão CNPJ with the given reason
CountEnrichment(reason) ==
    Cardinality({p \in 1..Len(result.value.auto_actions) :
                    /\ result.value.auto_actions[p].type = "GENERATE_DOCUMENT"
                    /\ result.value.auto_actions[p].document_type = cartao_cnpj_tag
                    /\ result.value.auto_actions[p].reason = reason})

\* C22: when the Cartão CNPJ document is absent, a GENERATE_DOCUMENT action
\* for it is emitted whatever the card's CNPJ: with the reason of an
\* automatic generation when the CNPJ has exactly 14 digits after the
\* non-digits are removed, and with the reason that it could not be
\* generated when the CNPJ is malformed or absent; none otherwise.
C22_EnrichmentActionBothCases ==
    Classified =>
        /\ (CartaoCnpjAbsent /\ CnpjWellFormed) =>
              /\ CountEnrichment(ReasonGenerated) = 1
              /\ CountEnrichment(ReasonNotGenerated) = 0
        /\ (CartaoCnpjAbsent /\ ~CnpjWellFormed) =>
              /\ CountEnrichment(ReasonGenerated) = 0
              /\ CountEnrichment(ReasonNotGenerated) = 1
        /\ ~CartaoCnpjAbsent =>
              /\ CountEnrichment(ReasonGenerated) = 0
              /\ CountEnrichment(ReasonNotGenerated) = 0

\* Cartão CNPJ absent and a card without a CNPJ: the action says that the
\* document could not be generated
C22_Witness ==
    /\ Classified
    /\ CartaoCnpjAbsent
    /\ call.card_data = EmptyDict
    /\ CountEnrichment(ReasonNotGenerated) = 1

\* C23: in the summary every section is omitted when it has no entries: no
\* heading is rendered without at least one entry under it, also for an
\* empty list of analyses.
C23_NoEmptySection ==
    Classified =>
        LET summary == result.value.summary
        IN  \A p \in 1..Len(summary) :
               summary[p].line = "heading" =>
                  /\ p < Len(summary)
                  /\ summary[p + 1].line \in {"doc", "entry"}

\* C27: the status and the issue lists agree.  The status is
\* Pendencia_Bloqueante exactly when blocking_issues is not empty,
\* Pendencia_NaoBloqueante exactly when blocking_issues is empty and
\* non_blocking_issues is not, Aprovado exactly when both are empty; and an
\* analysis is not valid if and only if it has an issue.
C27_StatusAgreesWithIssues ==
    Classified =>
        LET status == result.value.classification_type
            b == result.value.blocking_issues
            n == result.value.non_blocking_issues
        IN  /\ (status = PENDENCIA_BLOQUEANTE) <=> (b # <<>>)
            /\ (status = PENDENCIA_NAO_BLOQUEANTE) <=> (b = <<>> /\ n # <<>>)
            /\ (status = APROVADO) <=> (b = <<>> /\ n = <<>>)
            /\ \A i \in 1..NumAnalyses :
                  (~AnalysisAt(i).is_valid) <=> (AnalysisAt(i).issues # <<>>)

\* a present document without a required field: not valid, one issue, and
\* a pending status with the issue in the list of the rule's flag
C27_Witness ==
    /\ Classified
    /\ NumAnalyses = 1
    /\ AnalysisAt(1).is_present
    /\ ~AnalysisAt(1).is_valid
    /\ AnalysisAt(1).issues = <<IssueField(AnalysisAt(1).document_type, "numero")>>
    /\ FlagNonBlocking(1)
    /\ result.value.classification_type = PENDENCIA_NAO_BLOQUEANTE
    /\ result.value.non_blocking_issues = AnalysisAt(1).issues

(***************************************************************************)
(* Properties of validate_documents (specification SpecValidate).          *)
(***************************************************************************)
\* the call ended: it returned a dict, or raised
Validated == validation.pc = "done"

\* the call returned the result of a loop over a checklist
ValidatedLoop ==
    Validated /\ ~validation.ret.raised /\ validation.ret.value.status # "error"

NombreAt(k) == Nombre(validation.checklist[k])

OracleRaisedAt(k) == k \in 1..Len(validation.oracle) /\ validation.oracle[k].raised

\* the run was not aborted, every rule has exactly one entry in detalles,
\* and the entries of the other rules equal those of any run that differs
\* only in the oracle call of a rule whose oracle call raised
Isolated ==
    /\ ~validation.ret.raised
    /\ DOMAIN validation.ret.value.detalles =
          {NombreAt(j) : j \in 1..Len(validation.checklist)}
    /\ Cardinality(DOMAIN validation.ret.value.detalles) = Len(validation.checklist)
    /\ \A k \in 1..Len(validation.checklist) :
          OracleRaisedAt(k) =>
             \A other \in OracleOutcomes :
                LET run == ValidateLoop(InitialValidation, validation.checklist,
                                        validation.documentos,
                                        [validation.oracle EXCEPT ![k] = other])
                IN  \A j \in 1..Len(validation.checklist) \ {k} :
                       run.detalles[NombreAt(j)] =
                          validation.ret.value.detalles[NombreAt(j)]

\* the names of the rules (their labels, stripped) are pairwise distinct
DistinctNames ==
    \A j, k \in 1..Len(validation.checklist) : j # k => NombreAt(j) # NombreAt(k)

\* C7 as stated: oracle isolation.  An exception raised by the oracle call
\* for one rule does not abort the run; every rule of the checklist gets
\* exactly one entry in detalles; and the entries of the other rules equal
\* those of any run that differs only in that rule's oracle call.
C7_OracleIsolation ==
    (Validated /\ \E k \in 1..Len(validation.checklist) : OracleRaisedAt(k))
        => Isolated

\* C7 amended: the same, for a checklist whose rule names are pairwise
\* distinct (detalles is keyed by the rule's name).
C7_OracleIsolationDistinctNames ==
    (Validated /\ DistinctNames
        /\ \E k \in 1..Len(validation.checklist) : OracleRaisedAt(k))
        => Isolated

\* the oracle raised for one rule and answered for another, which was
\* recorded as present
C7_Witness ==
    /\ ValidatedLoop
    /\ Len(validation.checklist) >= 2
    /\ DistinctNames
    /\ \E k, j \in 1..Len(validation.checklist) :
          /\ OracleRaisedAt(k)
          /\ ~validation.oracle[j].raised
          /\ validation.ret.value.detalles[NombreAt(j)].status = "Presente"

\* the status one absent document of this rule gives, on its own
PendencyIsBlocking(regla) == IsSubstring(Chars_Bloqueante, regla[ClassKey])

\* C8: when the oracle call fails for a rule, the rule is recorded as
\* absent (Faltante) and the status returned is the one an absent document
\* of that rule would give: Pendencia_Bloqueante if the rule's pendency
\* class is blocking, otherwise not Aprovado.
C8_OracleFailureDegrades ==
    ValidatedLoop =>
        \A k \in 1..Len(validation.checklist) :
            OracleRaisedAt(k) =>
                /\ validation.ret.value.detalles[NombreAt(k)].status = "Faltante"
                /\ validation.ret.value.status # APROVADO
                /\ PendencyIsBlocking(validation.checklist[k])
                      => validation.ret.value.status = PENDENCIA_BLOQUEANTE

\* the exact-match stage of the specification: the normalized name contains
\* the normalized label, or the label the name (both non-empty)
ExactMatch(label, doc) ==
    /\ Get(doc, "name", PyStr(<<>>)).py = "str"
    /\ LET nl == NormalizeName(label)
           nn == NormalizeName(Get(doc, "name", PyStr(<<>>)).v)
       IN  nl # <<>> /\ nn # <<>> /\ (IsSubstring(nl, nn) \/ IsSubstring(nn, nl))

FirstExactMatch(label, documentos) ==
    CHOOSE i \in 1..Len(documentos) :
        /\ ExactMatch(label, documentos[i])
        /\ \A j \in 1..(i - 1) : ~ExactMatch(label, documentos[j])

\* C9: the exact-match stage comes first.  If some submission's normalized
\* name contains the rule's normalized label or is contained in it, the rule
\* is marked present with the first such submission, and the oracle is not
\* called for that rule.
C9_ExactMatchFirst ==
    ValidatedLoop =>
        \A k \in 1..Len(validation.checklist) :
            (\E i \in 1..Len(validation.documentos) :
                 ExactMatch(validation.checklist[k][ItemKey], validation.documentos[i]))
            => /\ validation.ret.value.detalles[NombreAt(k)].status = "Presente"
               /\ validation.ret.value.detalles[NombreAt(k)].doc_name =
                     validation.documentos[
                        FirstExactMatch(validation.checklist[k][ItemKey],
                                        validation.documentos)]["name"]
               /\ k \notin validation.asked

\* rule k is the last rule of its name: its entry in detalles is the one returned
LastOfName(k) ==
    \A j \in (k + 1)..Len(validation.checklist) : NombreAt(j) # NombreAt(k)

\* C20: the oracle's answer decides presence through a candidate check
\* only.  A rule is marked Presente only when the oracle answered and the
\* document recorded is one of the candidates, and a rule for which the
\* oracle answered 'Ninguno' is marked Faltante, whatever the candidates,
\* also a document whose name is empty.
C20_NoneSentinelIsAbsent ==
    ValidatedLoop =>
        \A k \in 1..Len(validation.checklist) :
            LastOfName(k) =>
                LET answer == validation.oracle[k]
                    entry == validation.ret.value.detalles[NombreAt(k)]
                IN  /\ entry.status = "Presente" =>
                          /\ ~answer.raised
                          /\ \E i \in 1..Len(validation.documentos) :
                                Get(validation.documentos[i], "name", PyNone) = entry.doc_name
                    /\ answer = Returned(PyStr(Chars_Ninguno)) =>
                          entry.status = "Faltante"

\* Aprovado < Pendencia_NaoBloqueante < Pendencia_Bloqueante
Severity(status) ==
    CASE status = APROVADO -> 0
      [] status = PENDENCIA_NAO_BLOQUEANTE -> 1
      [] status = PENDENCIA_BLOQUEANTE -> 2

\* the status returned when the rules, each with its oracle outcome, are
\* taken in the order given by f
StatusInOrder(f) ==
    ValidateLoop(InitialValidation,
                 [i \in 1..Len(validation.checklist) |-> validation.checklist[f[i]]],
                 validation.documentos,
                 [i \in 1..Len(validation.checklist) |-> validation.oracle[f[i]]]).status_geral

\* C28: while validate_documents iterates over the checklist the running
\* status only moves upward in severity, so that once it is
\* Pendencia_Bloqueante no later rule changes it; and the status returned
\* does not depend on the order of the rules of the checklist.
C28_StatusOnlyWorsens ==
    /\ [][(validation.pc = "loop" /\ validation'.pc # "idle") =>
             Severity(validation'.st.status_geral) >= Severity(validation.st.status_geral)]_vars
    /\ [](ValidatedLoop =>
             \A f \in [1..Len(validation.checklist) -> 1..Len(validation.checklist)] :
                 (\A i, j \in DOMAIN f : f[i] = f[j] => i = j) =>
                     StatusInOrder(f) = validation.ret.value.status)

\* a blocking rule found missing, then a non-blocking rule found missing:
\* the status returned is still Pendencia_Bloqueante
C28_Witness ==
    /\ ValidatedLoop
    /\ Len(validation.checklist) = 2
    /\ DistinctNames
    /\ PendencyIsBlocking(validation.checklist[1])
    /\ ~PendencyIsBlocking(validation.checklist[2])
    /\ \A k \in 1..2 :
          /\ validation.ret.value.detalles[NombreAt(k)].status = "Faltante"
          /\ "validacion" \in DOMAIN validation.ret.value.detalles[NombreAt(k)]
    /\ validation.ret.value.status = PENDENCIA_BLOQUEANTE

(***************************************************************************)
(* Properties of the rule repository (specification SpecRepo).             *)
(***************************************************************************)
\* C6: when the rule source could not be located or loaded at the time the
\* rules were first loaded, classify_documents raises: it never returns a
\* ClassificationResult computed from the empty rule set.
C6_SourceUnavailableIsFatal ==
    (Called /\ "available" \in DOMAIN first_load /\ ~first_load.available)
        => result.raised

\* C10: a request for rules (extract_rules, load_checklist) made after the
\* 30-minute time-to-live has expired, or after the source was modified
\* since the last successful load, is not answered from the cache.
C10_StaleIsReloaded ==
    ("op" \in DOMAIN last_op /\ last_op.op \in {"extract_rules", "load_checklist"}
        /\ last_op.stale)
        => ~last_op.from_cache

\* C11: after one successful load, a failing reload leaves the repository
\* serving the last good snapshot: get_knowledge_source returns the source
\* loaded before (not None) and extract_rules answers from it (not with the
\* empty rule set of a missing source).
C11_FailedReloadServesLastGood ==
    ("op" \in DOMAIN last_op /\ last_op.op \in {"get_knowledge_source", "extract_rules"}
        /\ last_op.loaded_before)
        => ~last_op.no_source

(***************************************************************************)
(* Properties of concurrent use (specification SpecConcurrent).            *)
(***************************************************************************)
\* C12: with concurrent readers and a reload in progress, a reader never
\* observes a partially updated snapshot: the cached rules a call returns
\* were derived from the source the instance holds at that moment, never
\* from an older one.
C12_NoTornSnapshot ==
    "rules_from" \in DOMAIN conc.observed
        => conc.observed.rules_from = conc.observed.source

\* C30: get_knowledge_source leaves the working directory of the process
\* unchanged: once no reload is in progress the working directory is the
\* one before the calls, after successful and failing reloads and after any
\* interleaving of two concurrent reloads.
C30_WorkingDirectoryRestored ==
    (\A t \in Threads : conc.threads[t].pc \notin
                           {"chdir", "construct", "stamp", "clear",
                            "restore", "restore_failed"})
        => conc.cwd = conc.launch_cwd

(***************************************************************************)
(* Properties of _normalize_name (specification SpecNormalize).            *)
(***************************************************************************)
\* C16: normalization is idempotent: normalizing what _normalize_name
\* returned gives the same string, for every name, also the empty one,
\* accented text and names made of separators only.
C16_NormalizeIdempotent ==
    "twice" \in DOMAIN result => result.twice = result.once

\* a name of an accented letter, a separator and a capital, normalized to
\* two words, and normalized again
C16_Witness ==
    /\ "twice" \in DOMAIN result
    /\ call.name = <<"ã", "-", "B">>
    /\ result.once = <<"a", " ", "b">>
    /\ result.twice = <<"a", " ", "b">>

(***************************************************************************)
(* Properties of the Pipefy service and client (specification SpecPipefy). *)
(***************************************************************************)
\* process_triagem_result has returned
Processed == "raised" \in DOMAIN result

\* C24: when the client raises the PipefyAPIError of
\* src.integrations.pipefy_client while the card is moved,
\* process_triagem_result does not raise and returns success = False with
\* exactly one error, reported as an error of the Pipefy API ('Error de API
\* Pipefy'), not as an unexpected error.
C24_ApiErrorReported ==
    (Processed /\ IsDict(call.analysis_result) /\ call.move = Raised(ClientPipefyAPIError)) =>
        /\ ~result.raised
        /\ ~result.value.success
        /\ Len(result.value.errors) = 1
        /\ result.value.errors[1].text = "Error de API Pipefy"

\* the calls made to the given method of the client, in order
CallsOf(method) ==
    SelectSeq(result.value.calls, LAMBDA c : c.method = method)

\* the awaited call returned a dict with the keys that are read from it
MoveSucceeded ==
    /\ ~call.move.raised
    /\ DOMAIN call.move.value = {"success", "new_phase_id", "new_phase_name"}

UpdateSucceeded(outcome) == ~outcome.raised /\ "success" \in DOMAIN outcome.value

\* update_card_field was called, and each of its calls succeeded
UpdatesSucceeded ==
    /\ Len(CallsOf("update_card_field")) >= 1
    /\ UpdateSucceeded(call.update)
    /\ Len(CallsOf("update_card_field")) >= 2 => UpdateSucceeded(call.summary)

OperationTypes == [i \in 1..Len(result.value.operations) |-> result.value.operations[i].type]

C26_MovePropagatesApiError ==
    "op" \in DOMAIN last_op =>
        LET query == last_op.query
            HasCard == /\ ~query.raised
                       /\ "moveCardToPhase" \in DOMAIN query.value
                       /\ IsDict(query.value["moveCardToPhase"])
                       /\ "card" \in DOMAIN query.value["moveCardToPhase"]
        IN  /\ query.raised => last_op.ret = Raised(ClientPipefyAPIError)
            /\ (~query.raised /\ HasCard) => last_op.ret = Returned(TRUE)
            /\ (~query.raised /\ ~HasCard) => last_op.ret = Returned(FALSE)

\* C29: process_triagem_result never raises, and what it returns is
\* consistent whatever the client does: success is True if and only if
\* errors is empty, operations is a prefix of move_card,
\* update_detailed_report, update_summary_report, and no card field is
\* updated once the move has raised.
C29_ResultConsistent ==
    Processed =>
        /\ ~result.raised
        /\ result.value.success <=> (result.value.errors = <<>>)
        /\ Len(OperationTypes) <= 3
        /\ OperationTypes =
              SubSeq(<<"move_card", "update_detailed_report", "update_summary_report">>,
                     1, Len(OperationTypes))
        /\ (IsDict(call.analysis_result) /\ ~MoveSucceeded) =>
              CallsOf("update_card_field") = <<>>
        /\ ~IsDict(call.analysis_result) => result.value.calls = <<>>

\* the move raises: one error, no operation, and no field was updated
C29_Witness ==
    /\ Processed
    /\ call.move = Raised("Exception")
    /\ IsDict(call.analysis_result)
    /\ ~result.value.success
    /\ Len(result.value.errors) = 1
    /\ result.value.operations = <<>>
    /\ Len(result.value.calls) = 1
    /\ CallsOf("update_card_field") = <<>>

====
